---- MODULE Spec2Model ----
(***************************************************************************)
(* Verification model of the document-processing core:                     *)
(*   - the idempotent Document Intelligence workflow                       *)
(*     (idp_service/ and databricks/ document_intelligence_workflow.py,    *)
(*      idp_service/document_intelligence_storage.py)                      *)
(*   - the SQS ingestion loop (databricks/sqs_batch_ingestion.py)          *)
(***************************************************************************)
EXTENDS Integers, Sequences, FiniteSets, TLC

(***************************************************************************)
(* Bounds of the model                                                     *)
(***************************************************************************)
MaxRetriesBound == 1      \* WorkflowConfig.max_retries ranges over 0..MaxRetriesBound
MaxCalls == 2             \* process() calls started in one behaviour
MaxMsgs == 2              \* messages on the ingestion queue
MaxCycles == 2            \* non-empty batches the ingestion loop receives
MaxRuns == 2              \* runs of process_messages (a raise ends a run)
MaxDlqMsgs == 2           \* messages parked on the dead-letter queue
MaxDlqCycles == 3         \* receive_message calls of one DLQ replay / peek
MaxPages == 2             \* pages of a document seen by the router
MaxResolvers == 2         \* content resolvers a router is built with
MaxEntries == 2           \* entries of one override payload or override table
MaxParsers == 3           \* entries of the `parsers` list of an ensemble payload
MaxNesting == 4           \* emails enclosing the innermost attachment of the submitted email
MaxDocs == 3              \* documents of one enrichment dispatch

Procs == {"p1", "p2"}     \* concurrent callers of workflow.process

VARIABLES
  \* ---- workflow ----
  module,        \* which document_intelligence_workflow.py is running
  storeKind,     \* InMemoryDocumentResultStore or DeltaDocumentResultStore
  maxRetries,    \* WorkflowConfig.max_retries
  store,         \* rows held by the store per key (document_id, checksum)
  pc,            \* position of each caller inside process()
  arg,           \* arguments of the caller's current / last process() call
  attempt,       \* local `attempt` of AzureDocumentIntelligenceService.analyze
  ncalls,        \* begin_analyze_document calls made by the current analyze()
  nfails,        \* ... of which failed
  walkIdx,       \* position in message.walk() of the attachment being analysed
  atts,          \* attachment ids appended so far (local `attachments`)
  did,           \* components the current / last process() call has run
  result,        \* outcome of the caller's last process() call
  recAtCheck,    \* whether the store held the key when the call checked it
  lastAnalyze,   \* how the caller's last analyze() ended
  started,       \* process() calls started so far
  saves,         \* store.save executions per key, split by force
  \* ---- ingestion loop ----
  msgKind,          \* what the body of each queue message is
  qstate,           \* SQS state of each message: visible, inflight, deleted
  dispatchJobId,    \* config.dispatch_job_id is set
  routingTableSet,  \* config.routing_metadata_table is set
  maxBatches,       \* config.max_batches, 0 for None
  ipc,              \* position of process_messages
  batch,            \* `messages` of the current cycle
  loopIdx,          \* index of the for loop over the batch
  routed,           \* metadata_records / analyses / routed_payload (parallel)
  metadataTable,    \* rows appended to config.metadata_table, per message
  routingTable,     \* rows appended to config.routing_metadata_table
  events,           \* what the current cycle did to each message, in order
  cause,            \* the call that raised in the current cycle
  batchesProcessed,
  totalMessages,
  cycles,           \* receive_message calls so far that returned messages
  runs,             \* runs of process_messages started so far
  \* ---- DLQ replay / peek (databricks/dlq_replay.py) ----
  dmode,            \* "replay": replay_dead_letter_queue, "peek": peek_dlq_messages
  limit,            \* the `limit` argument, NoLimit for None
  batch_size,       \* the `batch_size` argument of the replay
  dq,               \* SQS state of each DLQ message
  dpc,              \* position inside the function
  messages,         \* replay: the received batch; peek: the list to return
  didx,             \* index of `for message in messages` of the replay
  replayed,         \* local counter of the replay, its return value
  remaining,        \* local counter of the peek
  sentOk,           \* successful send_message calls per DLQ message
  sendFailed,       \* send_message calls that raised ClientError, per message
  deleteCalls,      \* successful delete_message calls per DLQ message
  dcycles,          \* receive_message calls made on the DLQ
  \* ---- document router (idp_router/router.py) ----
  config,           \* the RouterConfig of the DocumentRouter
  secretOverrides,  \* pattern overrides held by the secret store
  tableOverrides,   \* pattern overrides held by the override table
  envOverrides,     \* pattern overrides held by the environment variable
  object_key,       \* object key of the message being routed
  analyser,         \* which LayoutAnalyser the router was built with
  body,             \* body of the message being routed
  content_resolvers,  \* what each configured ContentResolver does on fetch
  content,          \* the document bytes _resolve_content returned
  response,         \* what the layout model answers for this document
  rpc,              \* position inside the cycle / inside route()
  overrides,        \* the OverrideSet loaded for the cycle
  profile,          \* DocumentProfile built by the analyser
  category,         \* DocumentCategory of the profile
  strategy,         \* ParserStrategy selected
  applied,          \* overrides_applied
  \* ---- library functions called on their own ----
  callee,           \* the function or method being called
  args,             \* its arguments
  returned          \* <<>> while the call is pending, then <<its outcome>>

wfVars == <<module, storeKind, maxRetries, store, pc, arg, attempt, ncalls,
            nfails, walkIdx, atts, did, result, recAtCheck, lastAnalyze,
            started, saves>>

ingVars == <<msgKind, qstate, dispatchJobId, routingTableSet, maxBatches, ipc,
             batch, loopIdx, routed, metadataTable, routingTable, events,
             cause, batchesProcessed, totalMessages, cycles, runs>>

dlqVars == <<dmode, limit, batch_size, dq, dpc, messages, didx, replayed,
             remaining, sentOk, sendFailed, deleteCalls, dcycles>>

rtVars == <<config, secretOverrides, tableOverrides, envOverrides, object_key,
            analyser, body, content_resolvers, content, response, rpc,
            overrides, profile,
            category, strategy, applied>>

callVars == <<callee, args, returned>>

vars == <<wfVars, ingVars, dlqVars, rtVars, callVars>>

\* no library function is being called on its own
CallIdle == callee = "none" /\ args = <<>> /\ returned = <<>>

(***************************************************************************)
(* Pure helpers of the workflow                                            *)
(***************************************************************************)
\* DocumentKey(document_id, sha256 digest of the payload)
Key(id, payload) == <<id, <<"sha256", payload>>>>

Keys == {Key(id, b) : id \in {"d1", "d2"}, b \in {"pdf", "eml"}}

\* MIME structure of the byte strings the callers submit, as
\* email.message_from_bytes parses them.  data is the decoded payload of a
\* leaf part ("" when it is empty); a part with children is multipart.
Leaf(ctype, disp, data) ==
  [ctype |-> ctype, disp |-> disp, data |-> data, children |-> <<>>]

\* an attached email: its text and either a PDF or, while levels > 0,
\* another attached email
RECURSIVE NestedMessage(_)
NestedMessage(levels) ==
  [ctype |-> "multipart/mixed", disp |-> "none", data |-> "",
   children |-> << Leaf("text/plain", "none", "inner-text"),
                   IF levels = 0
                   THEN Leaf("application/pdf", "attachment", "att2")
                   ELSE [ctype |-> "message/rfc822", disp |-> "attachment",
                         data |-> "", children |-> <<NestedMessage(levels - 1)>>] >>]

MimeTree(payload) ==
  IF payload = "eml"
  THEN [ctype |-> "multipart/mixed", disp |-> "none", data |-> "",
        children |-> << Leaf("text/plain", "none", "text"),
                        Leaf("application/pdf", "attachment", "att1"),
                        [ctype |-> "message/rfc822", disp |-> "attachment",
                         data |-> "", children |-> <<NestedMessage(MaxNesting - 2)>>],
                        Leaf("image/png", "attachment", "") >>]
  ELSE Leaf("application/pdf", "none", payload)

\* metadata["mime_type"] the caller passes along with the bytes
MimeType(payload) ==
  IF payload = "eml" THEN "message/rfc822" ELSE "application/pdf"

StartsWithMessage(mime) == mime = "message/rfc822"

RECURSIVE Concat(_)
Concat(seqs) ==
  IF seqs = <<>> THEN <<>> ELSE Head(seqs) \o Concat(Tail(seqs))

\* email.message.Message.walk: the part itself, then its subparts depth first
RECURSIVE Walk(_)
Walk(part) ==
  <<part>> \o Concat([i \in 1..Len(part.children) |-> Walk(part.children[i])])

\* part.get_payload(decode=True) or b"": None for a multipart part
PartPayload(part) == IF part.children # <<>> THEN "" ELSE part.data

\* the loop body of _attach_email_children runs the vendor for this part
Analysable(part) == part.disp = "attachment" /\ PartPayload(part) # ""

\* first index > i of walk whose part is analysed, 0 when there is none
NextAttachment(walk, i) ==
  LET later == {j \in (i + 1)..Len(walk) : Analysable(walk[j])}
  IN IF later = {} THEN 0 ELSE CHOOSE j \in later : \A k \in later : j <= k

\* _attach_email_children up to its loop: the walk to iterate, <<>> when
\* the function returns the canonical document unchanged
AttachmentWalk(mod, payload) ==
  IF mod = "idp_service" /\ StartsWithMessage(MimeType(payload))
  THEN Walk(MimeTree(payload))
  ELSE <<>>


\* DocumentResultStore.has_record
has_record(st, k) == st[k] > 0

\* DocumentResultStore.save: the Delta store appends a row, the in-memory
\* store assigns the dictionary entry of the key
save(kind, st, k) ==
  IF kind = "delta" THEN [st EXCEPT ![k] = @ + 1] ELSE [st EXCEPT ![k] = 1]

\* variants of the guard: force not consulted / the test on force inverted
ShouldSkip_IgnoresForce(force, st, k) == has_record(st, k)

ShouldSkip_Inverted(force, st, k) == force /\ has_record(st, k)

\* the guard of the early return of process()
ShouldSkip(force, st, k) == ~force /\ has_record(st, k)

\* what the early return of process() produces
SkipOutcome(mod) ==
  IF mod = "idp_service"
  THEN "TypeError"    \* WorkflowResult(..., raw_result=None, ...): no such field
  ELSE "skipped"      \* WorkflowResult(document=None, skipped=True)

\* variant of the retry test that allows one attempt too many
RaisesAfter_OffByOne(att, max_retries) == att > max_retries + 1

\* the except branch of AzureDocumentIntelligenceService.analyze after the
\* increment of attempt: re-raise or sleep and retry
RaisesAfter(att, max_retries) == att > max_retries

(***************************************************************************)
(* Workflow: state machine                                                 *)
(***************************************************************************)

WfInit ==
  /\ module \in {"idp_service", "databricks"}
  /\ storeKind \in {"memory", "delta"}
  /\ maxRetries \in 0..MaxRetriesBound
  /\ store = [k \in Keys |-> 0]
  /\ pc = [p \in Procs |-> "idle"]
  /\ arg = [p \in Procs |-> [id |-> "d1", bytes |-> "pdf", force |-> FALSE, enrich |-> FALSE]]
  /\ attempt = [p \in Procs |-> 0]
  /\ ncalls = [p \in Procs |-> 0]
  /\ nfails = [p \in Procs |-> 0]
  /\ walkIdx = [p \in Procs |-> 0]
  /\ atts = [p \in Procs |-> <<>>]
  /\ did = [p \in Procs |-> {}]
  /\ result = [p \in Procs |-> "none"]
  /\ recAtCheck = [p \in Procs |-> FALSE]
  /\ lastAnalyze = [p \in Procs |-> [calls |-> 0, fails |-> 0, outcome |-> "none"]]
  /\ started = 0
  /\ saves = [k \in Keys |-> [forced |-> 0, plain |-> 0]]

\* a caller enters process()
StartProcess(p) ==
  /\ pc[p] = "idle"
  /\ started < MaxCalls
  \* caller p1 asks for the configured "keywords" provider, caller p2 for
  \* none; databricks/ has no enrichment step
  /\ \E d \in {<<"d1", "pdf">>, <<"d1", "eml">>, <<"d2", "pdf">>}, f \in BOOLEAN :
       arg' = [arg EXCEPT ![p] = [id |-> d[1], bytes |-> d[2], force |-> f,
                                  enrich |-> (p = "p1" /\ module = "idp_service")]]
  /\ pc' = [pc EXCEPT ![p] = "check"]
  /\ started' = started + 1
  /\ did' = [did EXCEPT ![p] = {}]
  /\ result' = [result EXCEPT ![p] = "pending"]
  /\ recAtCheck' = [recAtCheck EXCEPT ![p] = FALSE]
  /\ atts' = [atts EXCEPT ![p] = <<>>]
  /\ walkIdx' = [walkIdx EXCEPT ![p] = 0]
  /\ UNCHANGED <<module, storeKind, maxRetries, store, attempt, ncalls,
                 nfails, lastAnalyze, saves>>

\* process(): checksum, the has_record test and the early return
CheckStore(p) ==
  /\ pc[p] = "check"
  /\ LET k == Key(arg[p].id, arg[p].bytes) IN
       /\ recAtCheck' = [recAtCheck EXCEPT ![p] = store[k] > 0]
       /\ IF ShouldSkip(arg[p].force, store, k)
          THEN /\ pc' = [pc EXCEPT ![p] = "idle"]
               /\ result' = [result EXCEPT ![p] = SkipOutcome(module)]
               /\ UNCHANGED <<attempt, ncalls, nfails>>
          ELSE /\ pc' = [pc EXCEPT ![p] = "analyze"]
               /\ attempt' = [attempt EXCEPT ![p] = 0]
               /\ ncalls' = [ncalls EXCEPT ![p] = 0]
               /\ nfails' = [nfails EXCEPT ![p] = 0]
               /\ UNCHANGED result
  /\ UNCHANGED <<module, storeKind, maxRetries, store, arg, walkIdx, atts,
                 did, lastAnalyze, started, saves>>

\* one begin_analyze_document(...).result() of analyze() that succeeds;
\* analyze returns and process() / _attach_email_children continue up to the
\* next vendor call or up to store.save
VendorSucceeds(p) ==
  /\ pc[p] \in {"analyze", "attach"}
  /\ lastAnalyze' = [lastAnalyze EXCEPT ![p] =
       [calls |-> ncalls[p] + 1, fails |-> nfails[p], outcome |-> "returned"]]
  /\ LET walk == AttachmentWalk(module, arg[p].bytes)
         nxt == NextAttachment(walk, walkIdx[p])
     IN /\ atts' = [atts EXCEPT ![p] =
                      IF pc[p] = "attach" THEN Append(@, walkIdx[p]) ELSE @]
        /\ walkIdx' = [walkIdx EXCEPT ![p] = nxt]
        /\ pc' = [pc EXCEPT ![p] = IF nxt = 0 THEN "save" ELSE "attach"]
  /\ did' = [did EXCEPT ![p] = @ \cup {"vendor", "adapter"}]
  /\ attempt' = [attempt EXCEPT ![p] = 0]
  /\ ncalls' = [ncalls EXCEPT ![p] = 0]
  /\ nfails' = [nfails EXCEPT ![p] = 0]
  /\ UNCHANGED <<module, storeKind, maxRetries, store, arg, result,
                 recAtCheck, started, saves>>

\* variant of VendorFails that persists the key when analyze gives up
VendorFails_SavesOnError(p) ==
  /\ pc[p] \in {"analyze", "attach"}
  /\ did' = [did EXCEPT ![p] = @ \cup {"vendor"}]
  /\ IF RaisesAfter(attempt[p] + 1, maxRetries)
     THEN /\ pc' = [pc EXCEPT ![p] = "idle"]
          /\ result' = [result EXCEPT ![p] = "vendor_error"]
          /\ lastAnalyze' = [lastAnalyze EXCEPT ![p] =
               [calls |-> ncalls[p] + 1, fails |-> nfails[p] + 1,
                outcome |-> "raised"]]
          /\ attempt' = [attempt EXCEPT ![p] = 0]
          /\ ncalls' = [ncalls EXCEPT ![p] = 0]
          /\ nfails' = [nfails EXCEPT ![p] = 0]
          /\ store' = save(storeKind, store, Key(arg[p].id, arg[p].bytes))
     ELSE /\ attempt' = [attempt EXCEPT ![p] = @ + 1]
          /\ ncalls' = [ncalls EXCEPT ![p] = @ + 1]
          /\ nfails' = [nfails EXCEPT ![p] = @ + 1]
          /\ UNCHANGED <<pc, result, lastAnalyze, store>>
  /\ UNCHANGED <<module, storeKind, maxRetries, arg, walkIdx, atts,
                 recAtCheck, started, saves>>

\* one begin_analyze_document(...).result() of analyze() that raises
VendorFails(p) ==
  /\ pc[p] \in {"analyze", "attach"}
  /\ did' = [did EXCEPT ![p] = @ \cup {"vendor"}]
  /\ IF RaisesAfter(attempt[p] + 1, maxRetries)
     THEN /\ pc' = [pc EXCEPT ![p] = "idle"]
          /\ result' = [result EXCEPT ![p] = "vendor_error"]
          /\ lastAnalyze' = [lastAnalyze EXCEPT ![p] =
               [calls |-> ncalls[p] + 1, fails |-> nfails[p] + 1,
                outcome |-> "raised"]]
          /\ attempt' = [attempt EXCEPT ![p] = 0]
          /\ ncalls' = [ncalls EXCEPT ![p] = 0]
          /\ nfails' = [nfails EXCEPT ![p] = 0]
     ELSE /\ attempt' = [attempt EXCEPT ![p] = @ + 1]
          /\ ncalls' = [ncalls EXCEPT ![p] = @ + 1]
          /\ nfails' = [nfails EXCEPT ![p] = @ + 1]
          /\ UNCHANGED <<pc, result, lastAnalyze>>
  /\ UNCHANGED <<module, storeKind, maxRetries, store, arg, walkIdx, atts,
                 recAtCheck, started, saves>>

\* the tail of process(): summarise, enrich, store.save, return the document
SaveResult(p) ==
  /\ pc[p] = "save"
  /\ LET k == Key(arg[p].id, arg[p].bytes) IN
       /\ store' = save(storeKind, store, k)
       /\ saves' = [saves EXCEPT ![k] =
            IF arg[p].force THEN [@ EXCEPT !.forced = @ + 1]
                            ELSE [@ EXCEPT !.plain = @ + 1]]
  /\ did' = [did EXCEPT ![p] =
       @ \cup {"summarise", "save"}
         \cup (IF arg[p].enrich THEN {"enrich"} ELSE {})]
  /\ result' = [result EXCEPT ![p] = "document"]
  /\ pc' = [pc EXCEPT ![p] = "idle"]
  /\ UNCHANGED <<module, storeKind, maxRetries, arg, attempt, ncalls, nfails,
                 walkIdx, atts, recAtCheck, lastAnalyze, started>>

WfNext ==
  /\ \E p \in Procs :
       \/ StartProcess(p)
       \/ CheckStore(p)
       \/ VendorSucceeds(p)
       \/ VendorFails(p)
       \/ SaveResult(p)
  /\ UNCHANGED <<ingVars, dlqVars, rtVars, callVars>>

(***************************************************************************)
(* Ingestion loop: helpers                                                 *)
(***************************************************************************)
Msgs == 1..MaxMsgs



\* the batches receive_message can return from the visible messages S: any
\* selection of at most MaxNumberOfMessages of them.  msgKind ranges over
\* every assignment of bodies to messages, so listing each selection in
\* ascending message order loses no order of bodies.
Ascending(seq) == \A i, j \in 1..Len(seq) : i < j => seq[i] < seq[j]

BatchesOf(S) ==
  {b \in UNION {[1..n -> S] : n \in 0..MaxMsgs} : Ascending(b)}

Range(seq) == {seq[i] : i \in 1..Len(seq)}

\* _resolve_object_key: the first non-empty candidate, None when there is none
HasObjectKey(kind) == kind \in {"good", "routefail"}

\* receipt_handles = [message["ReceiptHandle"] for message in messages]
ReceiptHandles(b) == b

\* variant of the control flow that acknowledges before the work is done
AfterStage_DeleteFirst(stage, hasRoutingTable) ==
  CASE stage = "route" -> "delete"
    [] stage = "delete" -> "persist"
    [] stage = "persist" -> IF hasRoutingTable THEN "persist_routing" ELSE "dispatch"
    [] stage = "persist_routing" -> "dispatch"
    [] stage = "dispatch" -> "end"

\* the statement order of one cycle of process_messages after the for loop;
\* "end" is the bookkeeping after delete_messages
AfterStage(stage, hasRoutingTable) ==
  CASE stage = "route" -> "persist"
    [] stage = "persist" -> IF hasRoutingTable THEN "persist_routing" ELSE "dispatch"
    [] stage = "persist_routing" -> "dispatch"
    [] stage = "dispatch" -> "delete"
    [] stage = "delete" -> "end"

\* variant that logs a failed call and carries on with the cycle
OnError_Swallow(stage, hasRoutingTable) ==
  IF stage = "delete" THEN "raised" ELSE AfterStage(stage, hasRoutingTable)

\* an exception of persist_metadata, dispatch_to_worker or delete_messages is
\* not caught in process_messages: the run ends
OnError(stage, hasRoutingTable) == "raised"

\* variant of the test that lets one batch too many through
LeavesLoop_OffByOne(max_batches, processed) ==
  max_batches # 0 /\ processed > max_batches

\* `if config.max_batches and batches_processed >= config.max_batches: break`
LeavesLoop(max_batches, processed) == max_batches # 0 /\ processed >= max_batches

Mark(kind, seq) == [i \in 1..Len(seq) |-> <<kind, seq[i]>>]

AddRows(table, seq) == [m \in Msgs |-> table[m] + (IF m \in Range(seq) THEN 1 ELSE 0)]

(***************************************************************************)
(* Ingestion loop: state machine                                           *)
(***************************************************************************)
IngInit ==
  \* bodies the queue can carry: JSON with an object key that routes, JSON
  \* without any of the four key fields, text that is not JSON, JSON with an
  \* object key for which router.route raises
  /\ msgKind \in [Msgs -> {"good", "nokey", "badjson", "routefail"}]
  /\ qstate = [m \in Msgs |-> "visible"]
  /\ dispatchJobId \in BOOLEAN
  /\ routingTableSet \in BOOLEAN
  /\ maxBatches \in {0, 1, 2}       \* None, or stop after 1 or 2 batches
  /\ ipc = "poll"
  /\ batch = <<>>
  /\ loopIdx = 0
  /\ routed = <<>>
  /\ metadataTable = [m \in Msgs |-> 0]
  /\ routingTable = [m \in Msgs |-> 0]
  /\ events = <<>>
  /\ cause = "none"
  /\ batchesProcessed = 0
  /\ totalMessages = 0
  /\ cycles = 0
  /\ runs = 1

\* the state of the ingestion variables while the workflow is studied
IngIdle ==
  /\ msgKind = [m \in Msgs |-> "good"]
  /\ qstate = [m \in Msgs |-> "visible"]
  /\ dispatchJobId = FALSE
  /\ routingTableSet = FALSE
  /\ maxBatches = 0
  /\ ipc = "poll"
  /\ batch = <<>>
  /\ loopIdx = 0
  /\ routed = <<>>
  /\ metadataTable = [m \in Msgs |-> 0]
  /\ routingTable = [m \in Msgs |-> 0]
  /\ events = <<>>
  /\ cause = "none"
  /\ batchesProcessed = 0
  /\ totalMessages = 0
  /\ cycles = 0
  /\ runs = 1

\* the state of the workflow variables while the ingestion loop is studied
WfIdle ==
  /\ WfInit
  /\ module = "idp_service"
  /\ storeKind = "memory"
  /\ maxRetries = 0

IngConfig == <<msgKind, dispatchJobId, routingTableSet, maxBatches>>

\* one turn of the while loop up to the for loop, for a non-empty response:
\* load the overrides, receive a batch, take the receipt handles and parse
\* every body
Receive ==
  /\ ipc = "poll"
  /\ cycles < MaxCycles
  /\ cycles' = cycles + 1
  /\ \E b \in BatchesOf({m \in Msgs : qstate[m] = "visible"}) :
       /\ b # <<>>
       /\ batch' = b
       /\ qstate' = [m \in Msgs |-> IF m \in Range(b) THEN "inflight" ELSE qstate[m]]
       /\ events' = Mark("polled", b)
       /\ IF \E m \in Range(b) : msgKind[m] = "badjson"   \* json.loads raises
          THEN /\ ipc' = "raised"
               /\ cause' = "json"
          ELSE /\ ipc' = "route"
               /\ cause' = "none"
  /\ loopIdx' = 1
  /\ routed' = <<>>
  /\ UNCHANGED <<IngConfig, metadataTable, routingTable, batchesProcessed,
                 totalMessages, runs>>

\* one turn of the while loop whose receive_message returns no message:
\* `if not messages:` is taken and the loop goes to sleep
ReceiveEmpty ==
  /\ ipc = "poll"
  /\ ipc' = "sleep"
  /\ batch' = <<>>
  /\ events' = <<>>
  /\ cause' = "none"
  /\ loopIdx' = 1
  /\ routed' = <<>>
  /\ UNCHANGED <<IngConfig, qstate, metadataTable, routingTable,
                 batchesProcessed, totalMessages, cycles, runs>>

\* time.sleep(config.poll_interval_seconds) returns; `continue`
Wake ==
  /\ ipc = "sleep"
  /\ ipc' = "poll"
  /\ UNCHANGED <<IngConfig, qstate, batch, loopIdx, routed, metadataTable,
                 routingTable, events, cause, batchesProcessed, totalMessages,
                 cycles, runs>>

\* one iteration of `for message, body in zip(messages, message_payloads)`
RouteOne ==
  /\ ipc = "route"
  /\ loopIdx <= Len(batch)
  /\ LET m == batch[loopIdx]
         last == loopIdx = Len(batch)
     IN IF ~HasObjectKey(msgKind[m])
        THEN \* warning, continue
             /\ ipc' = IF last THEN AfterStage("route", routingTableSet) ELSE "route"
             /\ UNCHANGED <<routed, events, cause>>
        ELSE IF msgKind[m] = "routefail"   \* router.route raises
        THEN /\ ipc' = "raised"
             /\ cause' = "route"
             /\ UNCHANGED <<routed, events>>
        ELSE /\ routed' = Append(routed, m)
             /\ events' = Append(events, <<"routed", m>>)
             /\ ipc' = IF last THEN AfterStage("route", routingTableSet) ELSE "route"
             /\ UNCHANGED cause
  /\ loopIdx' = loopIdx + 1
  /\ UNCHANGED <<IngConfig, qstate, batch, metadataTable, routingTable,
                 batchesProcessed, totalMessages, cycles, runs>>

\* persist_metadata(spark, config.metadata_table, metadata_records)
PersistBase ==
  /\ ipc = "persist"
  /\ \/ /\ metadataTable' = (IF routed = <<>> THEN metadataTable
                                              ELSE AddRows(metadataTable, routed))
        /\ events' = events \o Mark("persisted", routed)
        /\ ipc' = AfterStage("persist", routingTableSet)
        /\ UNCHANGED cause
     \/ /\ routed # <<>>          \* the Delta write raises
        /\ cause' = "persist"
        /\ ipc' = OnError("persist", routingTableSet)
        /\ UNCHANGED <<metadataTable, events>>
  /\ UNCHANGED <<IngConfig, qstate, batch, loopIdx, routed, routingTable,
                 batchesProcessed, totalMessages, cycles, runs>>

\* persist_metadata(spark, config.routing_metadata_table, routing_records)
PersistRouting ==
  /\ ipc = "persist_routing"
  /\ \/ /\ routingTable' = (IF routed = <<>> THEN routingTable
                                             ELSE AddRows(routingTable, routed))
        /\ events' = events \o Mark("persisted_routing", routed)
        /\ ipc' = AfterStage("persist_routing", routingTableSet)
        /\ UNCHANGED cause
     \/ /\ routed # <<>>
        /\ cause' = "persist_routing"
        /\ ipc' = OnError("persist_routing", routingTableSet)
        /\ UNCHANGED <<routingTable, events>>
  /\ UNCHANGED <<IngConfig, qstate, batch, loopIdx, routed, metadataTable,
                 batchesProcessed, totalMessages, cycles, runs>>

\* dispatch_to_worker when a job id is configured, else the inline executor
Dispatch ==
  /\ ipc = "dispatch"
  /\ \/ /\ events' = events \o Mark("dispatched", routed)
        /\ ipc' = AfterStage("dispatch", routingTableSet)
        /\ UNCHANGED cause
     \/ /\ dispatchJobId /\ routed # <<>>     \* jobs.submit raises
        /\ cause' = "dispatch"
        /\ ipc' = OnError("dispatch", routingTableSet)
        /\ UNCHANGED events
  /\ UNCHANGED <<IngConfig, qstate, batch, loopIdx, routed, metadataTable,
                 routingTable, batchesProcessed, totalMessages, cycles, runs>>

\* delete_messages(sqs_client, queue_url, receipt_handles), the counters and
\* the max_batches test
Delete ==
  /\ ipc = "delete"
  /\ \/ /\ qstate' = [m \in Msgs |->
                       IF m \in Range(ReceiptHandles(batch)) THEN "deleted" ELSE qstate[m]]
        /\ events' = events \o Mark("deleted", ReceiptHandles(batch))
        /\ IF AfterStage("delete", routingTableSet) = "end"
           THEN /\ batchesProcessed' = batchesProcessed + 1
                /\ totalMessages' = totalMessages + Len(batch)
                /\ ipc' = IF LeavesLoop(maxBatches, batchesProcessed + 1)
                          THEN "summary" ELSE "poll"
           ELSE /\ ipc' = AfterStage("delete", routingTableSet)
                /\ UNCHANGED <<batchesProcessed, totalMessages>>
        /\ UNCHANGED cause
     \/ /\ cause' = "delete"      \* delete_message_batch raises
        /\ ipc' = OnError("delete", routingTableSet)
        /\ UNCHANGED <<qstate, events, batchesProcessed, totalMessages>>
  /\ UNCHANGED <<IngConfig, batch, loopIdx, routed, metadataTable,
                 routingTable, cycles, runs>>

\* the run summary row written after the loop
WriteSummary ==
  /\ ipc = "summary"
  /\ ipc' = "done"
  /\ UNCHANGED <<IngConfig, qstate, batch, loopIdx, routed, metadataTable,
                 routingTable, events, cause, batchesProcessed, totalMessages,
                 cycles, runs>>

\* SQS: the visibility timeout of a received message expires (observed by the
\* loop only at its next receive, so it is taken between cycles)
VisibilityTimeout(m) ==
  /\ qstate[m] = "inflight"
  /\ ipc \in {"poll", "sleep", "raised", "done"}
  /\ qstate' = [qstate EXCEPT ![m] = "visible"]
  /\ UNCHANGED <<IngConfig, ipc, batch, loopIdx, routed, metadataTable,
                 routingTable, events, cause, batchesProcessed, totalMessages,
                 cycles, runs>>

\* the job is started again after a run that raised
Restart ==
  /\ ipc = "raised"
  /\ runs < MaxRuns
  /\ runs' = runs + 1
  /\ ipc' = "poll"
  /\ batch' = <<>>
  /\ loopIdx' = 0
  /\ routed' = <<>>
  /\ events' = <<>>
  /\ cause' = "none"
  /\ batchesProcessed' = 0
  /\ totalMessages' = 0
  /\ UNCHANGED <<IngConfig, qstate, metadataTable, routingTable, cycles>>

IngNext ==
  /\ \/ Receive
     \/ ReceiveEmpty
     \/ Wake
     \/ RouteOne
     \/ PersistBase
     \/ PersistRouting
     \/ Dispatch
     \/ Delete
     \/ WriteSummary
     \/ \E m \in Msgs : VisibilityTimeout(m)
     \/ Restart
  /\ UNCHANGED <<wfVars, dlqVars, rtVars, callVars>>

(***************************************************************************)
(* DLQ replay and peek: helpers                                            *)
(***************************************************************************)
DlqMsgs == 1..MaxDlqMsgs

\* what receive_message can return from the visible DLQ messages S when at
\* most n are asked for (ascending order, as for BatchesOf)
DlqBatches(S, n) ==
  {b \in UNION {[1..k -> S] : k \in 0..n} : Ascending(b)}

Min(a, b) == IF a <= b THEN a ELSE b

\* `limit: Optional[int] = None`: the value that stands for None
NoLimit == -1

\* variant of the cap test that lets one message too many through
LimitReached_OffByOne(lim, count) == lim # NoLimit /\ count > lim

\* `limit is not None and replayed >= limit` (lines 72 and 88)
LimitReached(lim, count) == lim # NoLimit /\ count >= lim

\* variant that deletes the DLQ message whatever send_message did
DeletesAfterSend_Always(sendOk) == TRUE

\* delete_message is reached only when send_message did not raise: the
\* except branch of the replay `continue`s
DeletesAfterSend(sendOk) == sendOk

\* variant of delete_message that leaves the message on the DLQ
DeleteMessage_Noop(q, m) == q

\* client.delete_message(QueueUrl=dlq_url, ReceiptHandle=...)
DeleteMessage(q, m) == [q EXCEPT ![m] = "deleted"]

\* variant of the peek that does not give the message back
ChangeVisibilityToZero_Noop(q, m) == q

\* client.change_message_visibility(..., VisibilityTimeout=0)
ChangeVisibilityToZero(q, m) == [q EXCEPT ![m] = "visible"]

\* apply ChangeVisibilityToZero to the first k messages of a batch
RECURSIVE ReleaseFirst(_, _, _)
ReleaseFirst(q, b, k) ==
  IF k = 0 THEN q ELSE ChangeVisibilityToZero(ReleaseFirst(q, b, k - 1), b[k])

SumOver(f) ==
  LET RECURSIVE S(_)
      S(n) == IF n = 0 THEN 0 ELSE f[n] + S(n - 1)
  IN S(MaxDlqMsgs)

(***************************************************************************)
(* DLQ replay and peek: state machine                                      *)
(***************************************************************************)
DlqInit ==
  /\ dmode \in {"replay", "peek"}
  /\ \/ dmode = "replay" /\ limit \in {NoLimit} \cup 0..MaxDlqMsgs
     \/ dmode = "peek" /\ limit \in 0..(MaxDlqMsgs + 1)
  /\ batch_size \in 1..MaxDlqMsgs
  /\ dq = [m \in DlqMsgs |-> "visible"]
  /\ dpc = "recv"
  /\ messages = <<>>
  /\ didx = 0
  /\ replayed = 0
  /\ remaining = IF dmode = "peek" THEN limit ELSE 0
  /\ sentOk = [m \in DlqMsgs |-> 0]
  /\ sendFailed = [m \in DlqMsgs |-> 0]
  /\ deleteCalls = [m \in DlqMsgs |-> 0]
  /\ dcycles = 0

\* the state of the DLQ variables while another component is studied
DlqIdle ==
  /\ dmode = "replay"
  /\ limit = NoLimit
  /\ batch_size = 1
  /\ dq = [m \in DlqMsgs |-> "visible"]
  /\ dpc = "recv"
  /\ messages = <<>>
  /\ didx = 0
  /\ replayed = 0
  /\ remaining = 0
  /\ sentOk = [m \in DlqMsgs |-> 0]
  /\ sendFailed = [m \in DlqMsgs |-> 0]
  /\ deleteCalls = [m \in DlqMsgs |-> 0]
  /\ dcycles = 0

DlqArgs == <<dmode, limit, batch_size>>

\* replay: the head of the while loop, the cap test and receive_message
ReplayReceive ==
  /\ dmode = "replay" /\ dpc = "recv"
  /\ IF LimitReached(limit, replayed)
     THEN /\ dpc' = "done"
          /\ UNCHANGED <<dq, messages, didx, dcycles>>
     ELSE /\ dcycles < MaxDlqCycles
          /\ dcycles' = dcycles + 1
          /\ \E b \in DlqBatches({m \in DlqMsgs : dq[m] = "visible"}, Min(batch_size, 10)) :
               /\ messages' = b
               /\ dq' = [m \in DlqMsgs |-> IF m \in Range(b) THEN "inflight" ELSE dq[m]]
               /\ dpc' = IF b = <<>> THEN "done" ELSE "loop"
          /\ didx' = 1
  /\ UNCHANGED <<DlqArgs, replayed, remaining, sentOk, sendFailed, deleteCalls>>

\* replay: one iteration of `for message in messages`
ReplayOne ==
  /\ dmode = "replay" /\ dpc = "loop"
  /\ IF didx > Len(messages) \/ LimitReached(limit, replayed)
     THEN \* the for loop ends or breaks; back to the head of the while loop
          /\ dpc' = "recv"
          /\ UNCHANGED <<dq, didx, replayed, sentOk, sendFailed, deleteCalls>>
     ELSE LET m == messages[didx] IN
          \E sendOk \in BOOLEAN, deleteOk \in BOOLEAN :
            /\ sentOk' = [sentOk EXCEPT ![m] = @ + (IF sendOk THEN 1 ELSE 0)]
            /\ sendFailed' = [sendFailed EXCEPT ![m] = @ + (IF sendOk THEN 0 ELSE 1)]
            /\ IF ~DeletesAfterSend(sendOk)
               THEN \* logged, continue
                    /\ deleteOk
                    /\ didx' = didx + 1
                    /\ UNCHANGED <<dq, dpc, replayed, deleteCalls>>
               ELSE IF deleteOk
               THEN /\ dq' = DeleteMessage(dq, m)
                    /\ deleteCalls' = [deleteCalls EXCEPT ![m] = @ + 1]
                    /\ replayed' = replayed + 1
                    /\ didx' = didx + 1
                    /\ UNCHANGED dpc
               ELSE \* delete_message raises: nothing catches it
                    /\ dpc' = "raised"
                    /\ UNCHANGED <<dq, didx, replayed, deleteCalls>>
  /\ UNCHANGED <<DlqArgs, messages, remaining, dcycles>>

\* peek: one turn of `while remaining > 0`; the visibility changes of the
\* batch stop at the first change_message_visibility that raises
PeekReceive ==
  /\ dmode = "peek" /\ dpc = "recv"
  /\ IF remaining <= 0
     THEN /\ dpc' = "done"
          /\ UNCHANGED <<dq, messages, remaining, dcycles>>
     ELSE /\ dcycles < MaxDlqCycles
          /\ dcycles' = dcycles + 1
          /\ \E b \in DlqBatches({m \in DlqMsgs : dq[m] = "visible"}, Min(remaining, 10)) :
               IF b = <<>>
               THEN /\ dpc' = "done"
                    /\ UNCHANGED <<dq, messages, remaining>>
               ELSE /\ messages' = messages \o b
                    /\ remaining' = remaining - Len(b)
                    /\ \E k \in 0..Len(b) :
                         /\ dq' = ReleaseFirst(
                                    [m \in DlqMsgs |-> IF m \in Range(b) THEN "inflight" ELSE dq[m]],
                                    b, k)
                         /\ dpc' = IF k = Len(b) THEN "recv" ELSE "raised"
  /\ UNCHANGED <<DlqArgs, didx, replayed, sentOk, sendFailed, deleteCalls>>

\* SQS: the visibility timeout of a received DLQ message expires
DlqVisibilityTimeout(m) ==
  /\ dq[m] = "inflight"
  /\ dq' = [dq EXCEPT ![m] = "visible"]
  /\ UNCHANGED <<DlqArgs, dpc, messages, didx, replayed, remaining, sentOk,
                 sendFailed, deleteCalls, dcycles>>

DlqNext ==
  /\ \/ ReplayReceive
     \/ ReplayOne
     \/ PeekReceive
     \/ \E m \in DlqMsgs : DlqVisibilityTimeout(m)
  /\ UNCHANGED <<wfVars, ingVars, rtVars, callVars>>

(***************************************************************************)
(* Document router: data                                                   *)
(***************************************************************************)
\* Optional[...] values: None, or a one-element tuple holding the value
None == <<>>

Some(v) == <<v>>

\* Densities are percentages. A ratio or a mean is kept as the exact
\* fraction num/den of percentages, so count/len(page_metrics) is
\* Frac(100 * count, len) and fmean is Frac(sum, len).
Frac(n, d) == [num |-> n, den |-> d]

FracGE(f, pct) == f.num >= pct * f.den

InUnit(f) == 0 <= f.num /\ f.num <= 100 * f.den

SeqsUpTo(S, n) == UNION {[1..k -> S] : k \in 0..n}

\* one entry of documentMetadata.layout.pages, or of a layout model resp
Payload(t, i, tb, tc, ic, cb, rb) ==
  [textDensity |-> t, imageDensity |-> i, tableDensity |-> tb,
   tableCount |-> tc, imageCount |-> ic, checkboxCount |-> cb,
   radioButtonCount |-> rb]

PagePayloads ==
  { Payload(Some(60), None, None, 0, 0, 0, 0),      \* text page
    Payload(Some(30), None, None, 0, 0, 0, 0),      \* sparse page
    Payload(None, Some(70), None, 0, 3, 0, 0),      \* scanned page
    Payload(None, None, Some(50), 1, 0, 0, 0),      \* table page
    Payload(None, Some(70), Some(50), 1, 3, 0, 0),  \* scanned table page
    Payload(None, None, None, 0, 0, 1, 0),          \* page with a checkbox
    Payload(None, None, None, 0, 0, 0, 1),          \* page with a radio button
    Payload(Some(170), None, None, 0, 0, 0, 0) }    \* density above 1

\* documentMetadata.layout without its pages
Layouts ==
  { [textDensity |-> None, imageDensity |-> None, tableDensity |-> None],
    [textDensity |-> Some(60), imageDensity |-> None, tableDensity |-> None],
    [textDensity |-> Some(170), imageDensity |-> None, tableDensity |-> Some(120)] }

\* a message body.  parser_override is None when the body lacks the flag
\* key; routing and overrides are None when the block is missing, null or
\* an empty dict, and Some(v) for a non-empty dict whose flag entry is v
\* (None when the dict has no such entry)
Body(pages, layout, pageCount, override) ==
  [pages |-> pages, layout |-> layout, pageCount |-> pageCount,
   parser_override |-> override, routing |-> None, overrides |-> None]

NoContent == [kind |-> "none", pages |-> <<>>, chars |-> 0]

\* the resolved document bytes, as far as the analysers look at them
Contents ==
  LET \* a page of a PDF as PyMuPDF reports it: block areas in percent
      PdfPages ==
        { [text_area |-> 40, image_area |-> 0, table_area |-> 0, tables |-> 0,
           images |-> 0, checkboxes |-> 0, radios |-> 0],
          [text_area |-> 130, image_area |-> 0, table_area |-> 0, tables |-> 0,
           images |-> 0, checkboxes |-> 1, radios |-> 0],
          [text_area |-> 0, image_area |-> 80, table_area |-> 0, tables |-> 0,
           images |-> 1, checkboxes |-> 0, radios |-> 0],
          [text_area |-> 20, image_area |-> 0, table_area |-> 60, tables |-> 1,
           images |-> 0, checkboxes |-> 0, radios |-> 1] }
      \* a non-multipart text part of an email
      EmailParts ==
        { [html |-> TRUE, chars |-> 2000, images |-> 0, tables |-> 0,
           checkboxes |-> 0, radios |-> 0],
          [html |-> TRUE, chars |-> 8000, images |-> 12, tables |-> 5,
           checkboxes |-> 1, radios |-> 1],
          [html |-> FALSE, chars |-> 1500, images |-> 0, tables |-> 0,
           checkboxes |-> 0, radios |-> 0],
          [html |-> FALSE, chars |-> 6000, images |-> 0, tables |-> 0,
           checkboxes |-> 0, radios |-> 0] }
  IN {NoContent, [kind |-> "broken_pdf", pages |-> <<>>, chars |-> 0]}
       \cup {[kind |-> "pdf", pages |-> p, chars |-> 0] : p \in SeqsUpTo(PdfPages, MaxPages)}
       \cup {[kind |-> "email", pages |-> p, chars |-> c] :
               p \in SeqsUpTo(EmailParts, MaxPages), c \in {0, 3000}}

\* what ContentResolver.fetch does: raise, or return bytes (NoContent for
\* None and for empty bytes)
Fetched(c) == [raises |-> FALSE, content |-> c]

\* variant that takes whatever the first resolver that does not raise returns
Yields_AnyReturn(fetched) == ~fetched.raises

\* `continue` on an exception and `if content:` in _resolve_content
Yields(fetched) == ~fetched.raises /\ fetched.content # NoContent

\* DocumentRouter._resolve_content
RECURSIVE resolve_content(_)
resolve_content(resolvers) ==
  IF resolvers = <<>> THEN NoContent
  ELSE IF Yields(Head(resolvers)) THEN Head(resolvers).content
  ELSE resolve_content(Tail(resolvers))

NoResponse == [raises |-> FALSE, pages |-> <<>>]

\* what LayoutModelClient.infer_layout does: raise, or return page payloads
Responses ==
  {[raises |-> TRUE, pages |-> <<>>]}
    \cup {[raises |-> FALSE, pages |-> p] : p \in SeqsUpTo(PagePayloads, MaxPages)}

(***************************************************************************)
(* Document router: analysers                                              *)
(***************************************************************************)
\* _safe_float(*values, default=0.0): the first value that is not None
RECURSIVE SafeFloat(_)
SafeFloat(values) ==
  IF values = <<>> THEN 0
  ELSE IF Head(values) # None THEN Head(values)[1]
       ELSE SafeFloat(Tail(values))

PageMetrics(idx, t, i, tb, tc, ic, cb, rb) ==
  [index |-> idx, text_density |-> t, image_density |-> i,
   table_density |-> tb, table_count |-> tc, image_count |-> ic,
   checkbox_count |-> cb, radio_button_count |-> rb]

page_metrics_from_payload(idx, payload) ==
  LET text_density == SafeFloat(<<payload.textDensity, Some(50)>>)
      image_density == SafeFloat(<<payload.imageDensity, Some(100 - text_density)>>)
      table_density == SafeFloat(<<payload.tableDensity, None, Some(0)>>)
  IN PageMetrics(idx, text_density, image_density, table_density,
                 payload.tableCount, payload.imageCount,
                 payload.checkboxCount, payload.radioButtonCount)

\* _infer_page_count: documentMetadata.pageCount, else len(layout.pages)
infer_page_count(b) ==
  IF b.pageCount # None THEN b.pageCount
  ELSE IF b.pages # <<>> THEN Some(Len(b.pages))
  ELSE None

build_profile(b, page_metrics) ==
  LET n == Len(page_metrics)
      RECURSIVE SumTo(_, _)
      SumTo(f, k) == IF k = 0 THEN 0 ELSE f[k] + SumTo(f, k - 1)
      Mean(f) == IF n = 0 THEN Frac(0, 1) ELSE Frac(SumTo(f, n), n)
      RatioOf(P(_)) ==
        IF n = 0 THEN Frac(0, 1)
        ELSE Frac(100 * Cardinality({i \in 1..n : P(page_metrics[i])}), n)
      IsTablePage(page) == page.table_density >= 50 \/ page.table_count > 0
      IsScannedPage(page) == page.image_density >= 60 \/ page.image_count > 2
      HasCheckbox(page) == page.checkbox_count > 0
      HasRadioButton(page) == page.radio_button_count > 0
      IsFormPage(page) == page.checkbox_count > 0 \/ page.radio_button_count > 0
      inferred == infer_page_count(b)
  IN [page_count |-> IF n # 0 THEN n
                     ELSE IF inferred = None THEN 0 ELSE inferred[1],
      pages |-> page_metrics,
      average_text_density |-> Mean([i \in 1..n |-> page_metrics[i].text_density]),
      average_image_density |-> Mean([i \in 1..n |-> page_metrics[i].image_density]),
      table_page_ratio |-> RatioOf(IsTablePage),
      scanned_page_ratio |-> RatioOf(IsScannedPage),
      checkbox_page_ratio |-> RatioOf(HasCheckbox),
      radio_button_page_ratio |-> RatioOf(HasRadioButton),
      form_page_ratio |-> RatioOf(IsFormPage)]

\* HeuristicLayoutAnalyser.analyse
HeuristicAnalyse(b) ==
  LET listed == [i \in 1..Len(b.pages) |->
                   page_metrics_from_payload(i - 1, b.pages[i])]
      inferred == infer_page_count(b)
      inferred_pages == IF inferred = None \/ inferred[1] < 1 THEN 1 ELSE inferred[1]
      text_density == SafeFloat(<<b.layout.textDensity, Some(50)>>)
      image_density == SafeFloat(<<b.layout.imageDensity, Some(100 - text_density)>>)
      table_density == SafeFloat(<<b.layout.tableDensity, Some(0)>>)
      flat == [i \in 1..inferred_pages |->
                 PageMetrics(i - 1, text_density, image_density, table_density,
                             0, 0, 0, 0)]
  IN build_profile(b, IF listed # <<>> THEN listed ELSE flat)

\* variant that falls back only when the client raises
ModelBackedAnalyse_RaiseOnly(b, resp) ==
  LET metrics == [i \in 1..Len(resp.pages) |->
                    page_metrics_from_payload(i - 1, resp.pages[i])]
  IN IF ~resp.raises
     THEN build_profile(b, metrics)
     ELSE HeuristicAnalyse(b)

\* ModelBackedLayoutAnalyser.analyse with RequestsLayoutModelClient
ModelBackedAnalyse(b, resp) ==
  LET metrics == [i \in 1..Len(resp.pages) |->
                    page_metrics_from_payload(i - 1, resp.pages[i])]
  IN IF ~resp.raises /\ metrics # <<>>
     THEN build_profile(b, metrics)
     ELSE HeuristicAnalyse(b)

\* PyMuPDFLayoutAnalyser.analyse with _analyse_pdf, _analyse_email,
\* _metrics_from_pdf_page, _metrics_from_plain_text and
\* _EmailHTMLMetricsParser.build_metrics
PyMuPDFAnalyse(b, payload) ==
  LET metrics_from_pdf_page(page, index) ==
        PageMetrics(index, Min(page.text_area, 100), Min(page.image_area, 100),
                    Min(page.table_area, 100), page.tables, page.images,
                    page.checkboxes, page.radios)
      build_metrics(part, index) ==
        PageMetrics(index, Min((part.chars * 100) \div 4000, 100),
                    Min(part.images * 10, 100), Min(part.tables * 25, 100),
                    part.tables, part.images, part.checkboxes, part.radios)
      metrics_from_plain_text(chars, index) ==
        PageMetrics(index, Min((chars * 100) \div 3000, 100), 5, 0, 0, 0, 0, 0)
      parts == [i \in 1..Len(payload.pages) |->
                  IF payload.pages[i].html
                  THEN build_metrics(payload.pages[i], i - 1)
                  ELSE metrics_from_plain_text(payload.pages[i].chars, i - 1)]
  IN CASE payload.kind = "pdf" ->
            build_profile(b, [i \in 1..Len(payload.pages) |->
                                metrics_from_pdf_page(payload.pages[i], i - 1)])
       [] payload.kind = "email" ->
            build_profile(b, IF parts # <<>> THEN parts
                             ELSE <<metrics_from_plain_text(payload.chars, 0)>>)
       [] OTHER -> HeuristicAnalyse(b)

analyse(kind, b, payload, resp) ==
  CASE kind = "heuristic" -> HeuristicAnalyse(b)
    [] kind = "model" -> ModelBackedAnalyse(b, resp)
    [] kind = "pymupdf" -> PyMuPDFAnalyse(b, payload)

(***************************************************************************)
(* Document router: configuration, overrides and strategy selection        *)
(***************************************************************************)
StrategyConfig(name, model, max_pages) ==
  [name |-> name, model |-> model, max_pages |-> max_pages]

ParserStrategy(name, reason, model, max_pages) ==
  [name |-> name, reason |-> reason, model |-> model, max_pages |-> max_pages]

\* override.pattern.search(object_key) for the regexes of the model
Search(pattern, key) ==
  <<pattern, key>> \in { <<"invoices/", "invoices/a.pdf">>,
                         <<"pdf$", "invoices/a.pdf">>,
                         <<"pdf|txt", "invoices/a.pdf">>,
                         <<"pdf|txt", "memos/b.txt">> }

\* f"pattern:{override.pattern.pattern}"
PatternTag(pattern) ==
  CASE pattern = "invoices/" -> "pattern:invoices/"
    [] pattern = "pdf$" -> "pattern:pdf$"
    [] pattern = "pdf|txt" -> "pattern:pdf|txt"

\* variant that puts the environment overrides first
load_EnvFirst(secret, table, env) == env \o secret \o table

\* ConfiguredOverrideProvider.load
load(secret, table, env) == secret \o table \o env

\* Python truthiness of an Optional[str]
TruthyStr(opt) == opt # None /\ opt[1] # ""

FallbackStrategy == StrategyConfig("fallback_strategy", Some("fallback_model"), None)

\* the default_strategy_map argument of RouterConfig: form_heavy and unknown
\* have no entry
DefaultStrategyMap ==
  [c \in {"short_form", "long_form", "scanned", "table_heavy",
         "form_heavy", "unknown"} |->
     CASE c \in {"form_heavy", "unknown"} -> None
       [] c = "short_form" -> Some(StrategyConfig("short_form_parser", None, None))
       [] c = "long_form" -> Some(StrategyConfig("long_form_parser", None, Some(5)))
       [] c = "scanned" -> Some(StrategyConfig("scanned_parser", Some("ocr"), None))
       [] c = "table_heavy" -> Some(StrategyConfig("table_heavy_parser", None, None))]

\* RouterConfig.__post_init__, fallback and default map: a missing fallback
\* becomes fallback_non_azure, a missing unknown entry becomes the fallback;
\* fallback_given records the constructor argument
post_init(fallback_strategy, default_strategy_map) ==
  LET fallback == IF fallback_strategy # None THEN fallback_strategy[1]
                  ELSE StrategyConfig("fallback_non_azure", None, None)
  IN [fallback_given |-> fallback_strategy # None,
      fallback_strategy |-> fallback,
      default_strategy_map |->
        [default_strategy_map EXCEPT !["unknown"] = IF @ = None THEN Some(fallback) ELSE @]]

RatioThresholds ==
  {[scanned_page_ratio_threshold |-> 50, table_page_ratio_threshold |-> 30,
    form_page_ratio_threshold |-> 25, short_form_min_text_density |-> 55],
   [scanned_page_ratio_threshold |-> 100, table_page_ratio_threshold |-> 100,
    form_page_ratio_threshold |-> 100, short_form_min_text_density |-> 40]}

\* long_form_threshold and short_form_threshold: the defaults, and a small pair
CategoryThresholds ==
  {[long_form_threshold |-> 100, short_form_threshold |-> 15],
   [long_form_threshold |-> 2, short_form_threshold |-> 1]}

CappedCategories == {"short_form", "long_form", "table_heavy", "form_heavy"}

NoCaps == [c \in CappedCategories |-> None]

RouterConfig(mode, static, caps, cats, ratios) ==
  [mode |-> mode, static_strategy |-> static,
   fallback_given |-> TRUE,
   fallback_strategy |-> post_init(Some(FallbackStrategy), DefaultStrategyMap).fallback_strategy,
   default_strategy_map |-> post_init(Some(FallbackStrategy), DefaultStrategyMap).default_strategy_map,
   long_form_threshold |-> cats.long_form_threshold,
   short_form_threshold |-> cats.short_form_threshold,
   short_form_max_pages |-> caps["short_form"],
   long_form_max_pages |-> caps["long_form"],
   table_heavy_max_pages |-> caps["table_heavy"],
   form_max_pages |-> caps["form_heavy"],
   scanned_page_ratio_threshold |-> ratios.scanned_page_ratio_threshold,
   table_page_ratio_threshold |-> ratios.table_page_ratio_threshold,
   form_page_ratio_threshold |-> ratios.form_page_ratio_threshold,
   short_form_min_text_density |-> ratios.short_form_min_text_density]

\* RouterConfig() with every field at its default
DefaultConfig ==
  RouterConfig("hybrid", None, NoCaps,
               CHOOSE c \in CategoryThresholds : c.long_form_threshold = 100,
               CHOOSE r \in RatioThresholds : r.scanned_page_ratio_threshold = 50)

\* RouterConfig.strategy_for_category
strategy_for_category(cfg, cat) ==
  IF cfg.default_strategy_map[cat] # None
  THEN cfg.default_strategy_map[cat][1]
  ELSE cfg.default_strategy_map["unknown"][1]

\* DocumentRouter._build_descriptor
build_descriptor(b, key) ==
  LET routing_block == IF b.routing # None THEN b.routing ELSE b.overrides
  IN [object_key |-> key,
      request_override |->
        IF b.parser_override # None THEN b.parser_override
        ELSE IF routing_block # None THEN routing_block[1]
        ELSE None]

\* variant that tests the table ratio before the scanned ratio
categorise_TableFirst(prof, cfg) ==
  IF prof.page_count = 0 THEN "unknown"
  ELSE IF FracGE(prof.table_page_ratio, cfg.table_page_ratio_threshold)
  THEN "table_heavy"
  ELSE IF FracGE(prof.scanned_page_ratio, cfg.scanned_page_ratio_threshold)
  THEN "scanned"
  ELSE IF FracGE(prof.form_page_ratio, cfg.form_page_ratio_threshold)
  THEN "form_heavy"
  ELSE IF prof.page_count >= cfg.long_form_threshold THEN "long_form"
  ELSE IF /\ prof.page_count <= cfg.short_form_threshold
          /\ FracGE(prof.average_text_density, cfg.short_form_min_text_density)
  THEN "short_form"
  ELSE "unknown"

\* DocumentRouter._categorise
categorise(prof, cfg) ==
  IF prof.page_count = 0 THEN "unknown"
  ELSE IF FracGE(prof.scanned_page_ratio, cfg.scanned_page_ratio_threshold)
  THEN "scanned"
  ELSE IF FracGE(prof.table_page_ratio, cfg.table_page_ratio_threshold)
  THEN "table_heavy"
  ELSE IF FracGE(prof.form_page_ratio, cfg.form_page_ratio_threshold)
  THEN "form_heavy"
  ELSE IF prof.page_count >= cfg.long_form_threshold THEN "long_form"
  ELSE IF /\ prof.page_count <= cfg.short_form_threshold
          /\ FracGE(prof.average_text_density, cfg.short_form_min_text_density)
  THEN "short_form"
  ELSE "unknown"

Matching(ovs, key) == {i \in 1..Len(ovs) : Search(ovs[i].pattern, key)}

PatternChoice(ovs, key) ==
  LET hits == Matching(ovs, key)
      override == ovs[CHOOSE i \in hits : \A j \in hits : i <= j]
  IN [strategy |-> Some(ParserStrategy(override.strategy.name,
                                       "config_pattern_override",
                                       override.strategy.model,
                                       override.strategy.max_pages)),
      applied |-> <<PatternTag(override.pattern)>>]

RequestChoice(desc) ==
  [strategy |-> Some(ParserStrategy(desc.request_override[1], "request_override",
                                    None, None)),
   applied |-> <<"request">>]

\* variant that looks at the pattern overrides before the request override
apply_overrides_PatternFirst(desc, ovs) ==
  IF Matching(ovs, desc.object_key) # {} THEN PatternChoice(ovs, desc.object_key)
  ELSE IF TruthyStr(desc.request_override) THEN RequestChoice(desc)
  ELSE [strategy |-> None, applied |-> <<>>]

\* DocumentRouter._apply_overrides
apply_overrides(desc, ovs) ==
  IF TruthyStr(desc.request_override) THEN RequestChoice(desc)
  ELSE IF Matching(ovs, desc.object_key) # {} THEN PatternChoice(ovs, desc.object_key)
  ELSE [strategy |-> None, applied |-> <<>>]

\* the dict lookup at the head of _determine_strategy
ThresholdFor(cfg, cat) ==
  CASE cat = "short_form" -> cfg.short_form_max_pages
    [] cat = "long_form" -> cfg.long_form_max_pages
    [] cat = "table_heavy" -> cfg.table_heavy_max_pages
    [] cat = "form_heavy" -> cfg.form_max_pages
    [] OTHER -> None

\* variant that redirects only from one page above the cap
Exceeds_OffByOne(page_count, threshold) ==
  threshold # None /\ threshold[1] # 0 /\ page_count > threshold[1] + 1

\* `threshold and profile.page_count > threshold`
Exceeds(page_count, threshold) ==
  threshold # None /\ threshold[1] # 0 /\ page_count > threshold[1]

\* DocumentRouter._determine_strategy
determine_strategy(prof, cat, app, cfg) ==
  LET threshold == ThresholdFor(cfg, cat)
      fallback == cfg.fallback_strategy
      default_entry == strategy_for_category(cfg, cat)
  IN IF Exceeds(prof.page_count, threshold)
     THEN [strategy |-> ParserStrategy(fallback.name, "page_threshold_exceeded",
                                       fallback.model, threshold),
           applied |-> Append(app, "threshold_redirect")]
     ELSE [strategy |-> ParserStrategy(default_entry.name, "category_default",
                                       default_entry.model, default_entry.max_pages),
           applied |-> Append(app, "category_default")]

\* DocumentRouter._resolve_strategy
resolve_strategy(prof, desc, ovs, cat, cfg) ==
  LET overridden == apply_overrides(desc, ovs)
  IN IF overridden.strategy # None
     THEN [strategy |-> overridden.strategy[1], applied |-> overridden.applied]
     ELSE IF cfg.mode = "static" /\ cfg.static_strategy # None
     THEN [strategy |-> ParserStrategy(cfg.static_strategy[1].name, "config_static",
                                       cfg.static_strategy[1].model,
                                       cfg.static_strategy[1].max_pages),
           applied |-> Append(overridden.applied, "static_config")]
     ELSE determine_strategy(prof, cat, overridden.applied, cfg)

(***************************************************************************)
(* Document router: state machine of one route() call after another        *)
(***************************************************************************)
PlainLayout == CHOOSE l \in Layouts : l.textDensity = None

NoProfile == build_profile(Body(<<>>, PlainLayout, None, None), <<>>)

NoStrategy == ParserStrategy("", "", None, None)

\* message bodies without listed pages: a flat layout, maybe a page count
FlatBodies ==
  {Body(<<>>, l, n, None) : l \in Layouts, n \in {None, Some(MaxPages)}}

\* message bodies for the strategy study: n pages of one kind
UniformPages ==
  {[i \in 1..n |-> p] :
     n \in 1..MaxPages,
     p \in {q \in PagePayloads :
              /\ q.textDensity \in {None, Some(60), Some(30)}
              /\ q.radioButtonCount = 0
              /\ q.tableDensity = None \/ q.imageDensity = None}}

RouterOutputsEmpty ==
  /\ overrides = <<>>
  /\ profile = NoProfile
  /\ category = "none"
  /\ strategy = NoStrategy
  /\ applied = <<>>

\* documents of every layout, routed under varying thresholds
InitRouterLayouts ==
  /\ rpc = "load"
  /\ config \in {RouterConfig("hybrid", None, NoCaps, c, r) :
                   c \in CategoryThresholds, r \in RatioThresholds}
  /\ secretOverrides = <<>> /\ tableOverrides = <<>> /\ envOverrides = <<>>
  /\ object_key = "invoices/a.pdf"
  /\ \/ /\ analyser = "heuristic"
        /\ body \in FlatBodies \cup
                     {Body(p, PlainLayout, n, None) :
                        p \in SeqsUpTo(PagePayloads, MaxPages) \ {<<>>},
                        n \in {None, Some(MaxPages)}}
        /\ content_resolvers = <<Fetched(NoContent)>>
        /\ content = NoContent /\ response = NoResponse
     \/ /\ analyser = "model"
        /\ body \in FlatBodies
        /\ content_resolvers = <<Fetched(NoContent)>>
        /\ content = NoContent /\ response \in Responses
     \/ /\ analyser = "pymupdf"
        /\ body \in FlatBodies
        /\ content_resolvers \in {<<Fetched(c)>> : c \in Contents}
        /\ content = NoContent /\ response = NoResponse
  /\ RouterOutputsEmpty
  /\ WfIdle /\ IngIdle /\ DlqIdle /\ CallIdle

\* a few documents, routed under varying overrides and strategy settings
InitRouterStrategy ==
  /\ rpc = "load"
  /\ config \in {RouterConfig(m, s, caps, c, DefaultConfig) :
                   m \in {"hybrid", "static"}, s \in {None, Some(StrategyConfig("static_parser", Some("static_model"), Some(9)))},
                   caps \in {NoCaps} \cup {[NoCaps EXCEPT ![k] = Some(v)] :
                                            k \in CappedCategories, v \in {0, 1}}, c \in CategoryThresholds}
  /\ secretOverrides \in
       {<<>>, <<[pattern |-> "invoices/", strategy |-> StrategyConfig("secret_parser", Some("m1"), Some(7))]>>}
  /\ tableOverrides \in
       {<<>>, <<[pattern |-> "pdf$", strategy |-> StrategyConfig("table_row_parser", None, None)]>>}
  /\ envOverrides \in
       {<<>>, <<[pattern |-> "pdf|txt", strategy |-> StrategyConfig("env_parser", None, None)]>>}
  /\ object_key \in {"invoices/a.pdf", "memos/b.txt"}
  /\ analyser = "heuristic"
  /\ body \in {Body(p, PlainLayout, None, ro) :
                 p \in UniformPages, ro \in {None, Some(""), Some("request_parser")}}
  /\ content_resolvers = <<Fetched(NoContent)>>
  /\ content = NoContent /\ response = NoResponse
  /\ RouterOutputsEmpty
  /\ WfIdle /\ IngIdle /\ DlqIdle /\ CallIdle

\* one document whose request override sits in any of the three places
InitRouterRequest ==
  /\ rpc = "load"
  /\ config = DefaultConfig
  /\ secretOverrides \in
       {<<>>, <<[pattern |-> "invoices/", strategy |-> StrategyConfig("secret_parser", Some("m1"), Some(7))]>>}
  /\ tableOverrides = <<>> /\ envOverrides = <<>>
  /\ object_key \in {"invoices/a.pdf", "memos/b.txt"}
  /\ analyser = "heuristic"
  /\ \E p \in UniformPages, top \in {None, Some(""), Some("request_parser")} :
       \E r, o \in {None, Some(None), Some(Some("")), Some(Some("block_parser"))} :
         /\ Len(p) = 1
         /\ body = [Body(p, PlainLayout, None, top) EXCEPT !.routing = r, !.overrides = o]
  /\ content_resolvers = <<Fetched(NoContent)>>
  /\ content = NoContent /\ response = NoResponse
  /\ RouterOutputsEmpty
  /\ WfIdle /\ IngIdle /\ DlqIdle /\ CallIdle

\* configurations built with and without a fallback strategy and with and
\* without an `unknown` entry, routing documents of one and two pages
InitRouterFallback ==
  /\ rpc = "load"
  /\ \E f \in {None, Some(FallbackStrategy)},
        u \in {None, Some(StrategyConfig("unknown_parser", Some("unknown_model"), None))},
        caps \in {NoCaps} \cup {[NoCaps EXCEPT ![k] = Some(1)] : k \in CappedCategories} :
       LET built == post_init(f, [DefaultStrategyMap EXCEPT !["unknown"] = u])
       IN config = [RouterConfig("hybrid", None, caps,
                                 CHOOSE c \in CategoryThresholds : c.long_form_threshold = 2,
                                 DefaultConfig)
                      EXCEPT !.fallback_given = built.fallback_given,
                             !.fallback_strategy = built.fallback_strategy,
                             !.default_strategy_map = built.default_strategy_map]
  /\ secretOverrides = <<>> /\ tableOverrides = <<>> /\ envOverrides = <<>>
  /\ object_key = "invoices/a.pdf"
  /\ analyser = "heuristic"
  /\ body \in {Body(p, PlainLayout, None, None) : p \in UniformPages}
  /\ content_resolvers = <<Fetched(NoContent)>>
  /\ content = NoContent /\ response = NoResponse
  /\ RouterOutputsEmpty
  /\ WfIdle /\ IngIdle /\ DlqIdle /\ CallIdle

\* a router built with one to MaxResolvers content resolvers
InitRouterContent ==
  /\ rpc = "load"
  /\ config = DefaultConfig
  /\ secretOverrides = <<>> /\ tableOverrides = <<>> /\ envOverrides = <<>>
  /\ object_key \in {"invoices/a.pdf", "memos/b.txt"}
  /\ analyser = "pymupdf"
  /\ body \in FlatBodies
  /\ content_resolvers \in
       SeqsUpTo({[raises |-> TRUE, content |-> NoContent]} \cup
                  {Fetched(c) : c \in {d \in Contents : d.kind \in {"none", "pdf"} /\ Len(d.pages) <= 1}},
                MaxResolvers) \ {<<>>}
  /\ content = NoContent /\ response = NoResponse
  /\ RouterOutputsEmpty
  /\ WfIdle /\ IngIdle /\ DlqIdle /\ CallIdle

\* the state of the router variables while another component is studied
RouterIdle ==
  /\ rpc = "load"
  /\ config = DefaultConfig
  /\ secretOverrides = <<>> /\ tableOverrides = <<>> /\ envOverrides = <<>>
  /\ object_key = "invoices/a.pdf"
  /\ analyser = "heuristic"
  /\ body = Body(<<>>, PlainLayout, None, None)
  /\ content_resolvers = <<Fetched(NoContent)>>
  /\ content = NoContent /\ response = NoResponse
  /\ RouterOutputsEmpty

RouterInputs == <<config, secretOverrides, tableOverrides, envOverrides, object_key, analyser,
                  content_resolvers>>

\* override_provider.load() at the head of an ingestion cycle
LoadOverrides ==
  /\ rpc = "load"
  /\ overrides' = load(secretOverrides, tableOverrides, envOverrides)
  /\ rpc' = "analyse"
  /\ UNCHANGED <<RouterInputs, body, content, response, profile, category, strategy, applied>>

\* route(): descriptor, self._resolve_content and self.layout_analyser.analyse
Analyse ==
  /\ rpc = "analyse"
  /\ content' = resolve_content(content_resolvers)
  /\ profile' = analyse(analyser, body, content', response)
  /\ rpc' = "categorise"
  /\ UNCHANGED <<RouterInputs, body, response, overrides, category, strategy, applied>>

\* route(): self._categorise(profile)
Categorise ==
  /\ rpc = "categorise"
  /\ category' = categorise(profile, config)
  /\ rpc' = "resolve"
  /\ UNCHANGED <<RouterInputs, body, content, response, overrides, profile, strategy, applied>>

\* route(): self._resolve_strategy and the DocumentAnalysis it returns
ResolveStrategy ==
  /\ rpc = "resolve"
  /\ LET chosen == resolve_strategy(profile, build_descriptor(body, object_key),
                                    overrides, category, config)
     IN strategy' = chosen.strategy /\ applied' = chosen.applied
  /\ rpc' = "routed"
  /\ UNCHANGED <<RouterInputs, body, content, response, overrides, profile, category>>

\* the next message of the batch is routed with the same router and overrides
NextDocument ==
  /\ rpc = "routed"
  /\ \E p \in UniformPages : body' = Body(p, PlainLayout, None, None)
  /\ content' = NoContent /\ response' = NoResponse
  /\ profile' = NoProfile /\ category' = "none"
  /\ strategy' = NoStrategy /\ applied' = <<>>
  /\ rpc' = "analyse"
  /\ UNCHANGED <<RouterInputs, overrides>>

RouterNext ==
  /\ \/ LoadOverrides
     \/ Analyse
     \/ Categorise
     \/ ResolveStrategy
     \/ NextDocument
  /\ UNCHANGED <<wfVars, ingVars, dlqVars, callVars>>

(***************************************************************************)
(* Override provider: decoding of the configured sources                   *)
(***************************************************************************)
\* a JSON scalar as json.loads returns it: t is "null", "str" or "num",
\* v its text ("" for null)
Json(t, v) == [t |-> t, v |-> v]

\* _pattern_override_from_mapping.  A candidate is one entry of a decoded
\* payload or one table row: t is "dict" for a mapping, pattern and
\* strategy are its JSON values.  "(" stands for a text re.compile rejects.
pattern_override_from_mapping(candidate) ==
  LET truthy(j) == j.t # "null" /\ j.v # ""
      nothing == [raised |-> FALSE, override |-> None]
  IN IF candidate.t # "dict" THEN nothing
     ELSE IF ~truthy(candidate.pattern) \/ ~truthy(candidate.strategy) THEN nothing
     ELSE IF candidate.pattern.t # "str"
     THEN [raised |-> TRUE, override |-> None]     \* re.compile: TypeError
     ELSE IF candidate.pattern.v = "(" THEN nothing  \* re.error, caught
     ELSE [raised |-> FALSE,
           override |-> Some([pattern |-> candidate.pattern.v,
                              strategy |-> StrategyConfig(candidate.strategy.v, None, None)])]

\* the loop over candidates shared by _decode_override_payload and
\* _from_delta_table: the overrides appended before an exception, if any
RECURSIVE collect_overrides(_)
collect_overrides(candidates) ==
  IF candidates = <<>> THEN [raised |-> FALSE, overrides |-> <<>>]
  ELSE LET first == pattern_override_from_mapping(Head(candidates))
           rest == collect_overrides(Tail(candidates))
       IN IF first.raised THEN [raised |-> TRUE, overrides |-> <<>>]
          ELSE [raised |-> rest.raised,
                overrides |-> (IF first.override # None THEN <<first.override[1]>> ELSE <<>>)
                                \o rest.overrides]

\* _from_secret / _from_environment with _decode_override_payload.  The
\* payload is absent, text that is not JSON, a list, a mapping with a
\* pattern_overrides list ("wrapped"), a mapping whose pattern_overrides is
\* null ("wrapped_null"), or any other value, which is its own candidate
decode_override_payload(payload) ==
  CASE payload.j \in {"absent", "invalid_json"} -> [raised |-> FALSE, overrides |-> <<>>]
    [] payload.j = "wrapped_null" -> [raised |-> TRUE, overrides |-> <<>>]
    [] OTHER -> collect_overrides(payload.items)

\* _from_delta_table: any exception ends the loop and is swallowed
from_delta_table(table) ==
  IF table.raises THEN <<>> ELSE collect_overrides(table.rows).overrides

\* one load() over a secret value, an override table and an environment
\* payload holding well-formed and malformed entries
InitOverrideLoad ==
  LET mapping(p, st) == [t |-> "dict", pattern |-> p, strategy |-> st]
      Candidates ==
        { [t |-> "null", pattern |-> Json("null", ""), strategy |-> Json("null", "")],
          mapping(Json("str", "invoices/"), Json("str", "secret_parser")),
          mapping(Json("str", "pdf$"), Json("num", "7")),
          mapping(Json("str", "("), Json("str", "env_parser")),
          mapping(Json("num", "5"), Json("str", "env_parser")),
          mapping(Json("str", "pdf|txt"), Json("null", "")) }
      Rows == {c \in Candidates : c.t = "dict"}
      Payloads_ ==
        {[j |-> k, items |-> <<>>] : k \in {"absent", "invalid_json", "wrapped_null"}}
          \cup {[j |-> k, items |-> i] : k \in {"list", "wrapped"},
                                       i \in SeqsUpTo(Candidates, MaxEntries)}
          \cup {[j |-> "other", items |-> <<c>>] : c \in Candidates}
      one == <<mapping(Json("str", "pdf$"), Json("str", "table_row_parser"))>>
  IN /\ callee = "ConfiguredOverrideProvider.load"
     /\ \/ /\ args \in {[secret |-> x, table |-> [raises |-> FALSE, rows |-> r],
                         env |-> [j |-> "list", items |-> e]] :
                          x \in Payloads_, r \in {<<>>, one}, e \in {<<>>, one}}
        \/ /\ args \in {[secret |-> [j |-> "list", items |-> x],
                         table |-> [raises |-> f, rows |-> r], env |-> e] :
                          x \in {<<>>, one}, f \in BOOLEAN,
                          r \in SeqsUpTo(Rows, MaxEntries),
                          e \in {y \in Payloads_ : Len(y.items) <= 1}}
     /\ returned = <<>>
     /\ WfIdle /\ IngIdle /\ DlqIdle /\ RouterIdle

\* ConfiguredOverrideProvider.load
OverrideLoadNext ==
  /\ callee = "ConfiguredOverrideProvider.load" /\ returned = <<>>
  /\ LET secret == decode_override_payload(args.secret)
         env == decode_override_payload(args.env)
     IN returned' =
          IF secret.raised \/ env.raised
          THEN <<[raised |-> TRUE, pattern_overrides |-> <<>>]>>
          ELSE <<[raised |-> FALSE,
                  pattern_overrides |-> load(secret.overrides, from_delta_table(args.table),
                                             env.overrides)]>>
  /\ UNCHANGED <<callee, args, wfVars, ingVars, dlqVars, rtVars>>

SpecOverrideLoad == InitOverrideLoad /\ [][OverrideLoadNext]_vars

(***************************************************************************)
(* Ensemble adapter                                                        *)
(***************************************************************************)
\* the collections of a CanonicalDocument that the ensemble merges
Collections ==
  {"text_spans", "tables", "fields", "visual_descriptions", "page_segments",
   "attachments", "summaries"}

\* variant that puts the newer items in front
Extend_Prepend(combined, items) == items \o combined

\* list.extend
Extend(combined, items) == combined \o items

\* MultiParserAdapter.transform with _parse_additional_attachments.  An
\* entry of payload["parsers"] carries what its sub-adapter returns for it:
\* the collections and metadata.get("provider")
MultiParserTransform(payload) ==
  LET RECURSIVE merge(_, _)
      merge(entries, acc) ==
        IF entries = <<>> THEN acc
        ELSE LET parser_entry == Head(entries)
                 canonical == parser_entry.canonical
             IN IF ~parser_entry.is_dict THEN merge(Tail(entries), acc)
                ELSE IF parser_entry.name = "" \/ parser_entry.name \notin payload.adapters
                THEN [acc EXCEPT !.raised = TRUE]
                ELSE merge(Tail(entries),
                           [raised |-> FALSE,
                            combined |-> [c \in Collections |->
                                            Extend(acc.combined[c], canonical[c])],
                            parsers_used |->
                              Append(acc.parsers_used,
                                     IF canonical.provider # "" THEN canonical.provider
                                     ELSE parser_entry.name)])
      merged == merge(payload.parsers,
                      [raised |-> FALSE, combined |-> [c \in Collections |-> <<>>],
                       parsers_used |-> <<>>])
      usable(attachment) == attachment.is_dict /\ attachment.complete
      additional == LET kept == SelectSeq(payload.attachments, usable)
                    IN [i \in 1..Len(kept) |-> kept[i].attachment_id]
  IN IF payload.parsers = <<>> \/ merged.raised
     THEN [raised |-> TRUE, combined |-> [c \in Collections |-> <<>>], parsers_used |-> <<>>]
     ELSE [merged EXCEPT !.combined["attachments"] = Extend(@, additional)]

\* one transform() of an ensemble of the PyMuPDF and the LLM image adapter
InitMultiParser ==
  LET canonical(spans, tables, fields, visuals, segments, attached, summaries, provider) ==
        [text_spans |-> spans, tables |-> tables, fields |-> fields,
         visual_descriptions |-> visuals, page_segments |-> segments,
         attachments |-> attached, summaries |-> summaries, provider |-> provider]
      empty == canonical(<<>>, <<>>, <<>>, <<>>, <<>>, <<>>, <<>>, "")
      Entries ==
        { [is_dict |-> TRUE, name |-> "pymupdf",
           canonical |-> canonical(<<"t1", "t2">>, <<"tb1">>, <<>>, <<>>, <<"s1">>,
                                   <<"a1">>, <<>>, "pymupdf")],
          [is_dict |-> TRUE, name |-> "databricks_llm",
           canonical |-> canonical(<<"t3">>, <<>>, <<"f1">>, <<"v1">>, <<"s2">>,
                                   <<>>, <<"sm1">>, "databricks_llm_image")],
          [is_dict |-> TRUE, name |-> "pymupdf",
           canonical |-> canonical(<<"t1">>, <<>>, <<"f2">>, <<>>, <<>>, <<"a2">>,
                                   <<"sm2">>, "")],
          [is_dict |-> FALSE, name |-> "", canonical |-> empty],
          [is_dict |-> TRUE, name |-> "", canonical |-> empty],
          [is_dict |-> TRUE, name |-> "unregistered", canonical |-> empty] }
      Attachment(d, c, id) == [is_dict |-> d, complete |-> c, attachment_id |-> id]
  IN /\ callee = "MultiParserAdapter.transform"
     /\ args \in {[adapters |-> {"pymupdf", "databricks_llm"}, parsers |-> ps,
                   attachments |-> a] :
                    ps \in SeqsUpTo(Entries, MaxParsers),
                    a \in {<<>>, <<Attachment(TRUE, TRUE, "x1")>>,
                           <<Attachment(FALSE, FALSE, ""), Attachment(TRUE, TRUE, "x1"),
                             Attachment(TRUE, FALSE, "x2")>>}}
     /\ returned = <<>>
     /\ WfIdle /\ IngIdle /\ DlqIdle /\ RouterIdle

MultiParserNext ==
  /\ callee = "MultiParserAdapter.transform" /\ returned = <<>>
  /\ returned' = <<MultiParserTransform(args)>>
  /\ UNCHANGED <<callee, args, wfVars, ingVars, dlqVars, rtVars>>

SpecMultiParser == InitMultiParser /\ [][MultiParserNext]_vars

(***************************************************************************)
(* Canonical schema: serialisation                                         *)
(***************************************************************************)
\* variant of the to_dict methods that writes every field
Emitted_Always(cls, key, value) == TRUE

\* the to_dict methods: whether a field of an object of class cls is written.
\* A value is [kind, items]: kind "null", "scalar", "object" (items holds
\* the object) or "list" (items holds the objects)
Emitted(cls, key, value) ==
  LET Required ==
        [CanonicalDocument |-> {"document_id", "text_spans", "tables", "fields"},
         CanonicalTextSpan |-> {"content"},
         CanonicalTable |-> {"table_id", "cells"},
         CanonicalTableCell |-> {"content", "region"},
         StructuredField |-> {"name", "value"},
         BoundingRegion |-> {"page"},
         PageSegment |-> {"page_number"},
         DocumentAttachment |-> {"attachment_id"},
         DocumentSummary |-> {"summary"},
         DocumentEnrichment |-> {"enrichment_type"}]
  IN \/ key \in Required[cls]
     \/ value.kind \in {"scalar", "object"}      \* `is not None`
     \/ value.kind = "list" /\ value.items # <<>>  \* `if self.summaries:` ...

\* to_dict of a canonical object [cls, fields], children included
RECURSIVE to_dict(_)
to_dict(obj) ==
  [cls |-> obj.cls,
   fields |->
     [key \in {k \in DOMAIN obj.fields : Emitted(obj.cls, k, obj.fields[k])} |->
        [obj.fields[key] EXCEPT
           !.items = [i \in 1..Len(@) |-> to_dict(@[i])]]]]

\* one to_record() of a document whose nullable fields are set or null
InitSerialise ==
  LET Null == [kind |-> "null", items |-> <<>>]
      Scalar == [kind |-> "scalar", items |-> <<>>]
      Opt(set) == IF set THEN Scalar ELSE Null
      Object(o) == [kind |-> "object", items |-> <<o>>]
      List(os) == [kind |-> "list", items |-> os]
      Region == [cls |-> "BoundingRegion",
                 fields |-> [page |-> Scalar, polygon |-> Null, bounding_box |-> Scalar]]
      Span(b) == [cls |-> "CanonicalTextSpan",
                  fields |-> [content |-> Scalar, span_id |-> Opt(b),
                              region |-> IF b THEN Object(Region) ELSE Null]]
      Cell == [cls |-> "CanonicalTableCell",
               fields |-> [content |-> Scalar, region |-> Object(Region), provenance |-> Null]]
      Table(b) == [cls |-> "CanonicalTable",
                   fields |-> [table_id |-> Scalar, cells |-> List(<<Cell>>),
                               caption |-> Opt(b), footnotes |-> Null]]
      Field_(v, t) == [cls |-> "StructuredField",
                       fields |-> [name |-> Scalar, value |-> Opt(v), value_type |-> Opt(t),
                                   region |-> Null]]
      Segment(b) == [cls |-> "PageSegment",
                     fields |-> [page_number |-> Scalar, method |-> Opt(b), confidence |-> Null]]
      Summary(b) == [cls |-> "DocumentSummary",
                     fields |-> [summary |-> Scalar, title |-> Opt(b), model |-> Null]]
      Enrichment(b) == [cls |-> "DocumentEnrichment",
                        fields |-> [enrichment_type |-> Scalar, confidence |-> Opt(b),
                                    duration_ms |-> Null]]
      Document(spans, tables, flds, segments, atts_, summaries, enrichments, type) ==
        [cls |-> "CanonicalDocument",
         fields |-> [document_id |-> Scalar, text_spans |-> List(spans),
                     tables |-> List(tables), fields |-> List(flds),
                     page_segments |-> List(segments), attachments |-> List(atts_),
                     summaries |-> List(summaries), enrichments |-> List(enrichments),
                     document_type |-> Opt(type), mime_type |-> Null]]
      Attachment(b, inner) ==
        [cls |-> "DocumentAttachment",
         fields |-> [attachment_id |-> Scalar, checksum |-> Opt(b),
                     document |-> IF inner = <<>> THEN Null ELSE Object(inner[1])]]
      Inner(v) == Document(<<>>, <<>>, <<Field_(v, FALSE)>>, <<>>, <<>>, <<>>, <<>>, FALSE)
  IN /\ callee = "CanonicalDocument.to_record"
     /\ \E b \in [1..6 -> BOOLEAN], v \in [1..3 -> BOOLEAN],
           n \in [{"tables", "segments", "attachments", "summaries", "enrichments"} -> BOOLEAN] :
          args = Document(<<Span(b[1])>>,
                          IF n["tables"] THEN <<Table(b[2])>> ELSE <<>>,
                          <<Field_(v[1], v[2])>>,
                          IF n["segments"] THEN <<Segment(b[3])>> ELSE <<>>,
                          IF n["attachments"]
                          THEN <<Attachment(b[4], IF b[4] THEN <<Inner(v[3])>> ELSE <<>>)>>
                          ELSE <<>>,
                          IF n["summaries"] THEN <<Summary(b[5])>> ELSE <<>>,
                          IF n["enrichments"] THEN <<Enrichment(b[6])>> ELSE <<>>,
                          b[6])
     /\ returned = <<>>
     /\ WfIdle /\ IngIdle /\ DlqIdle /\ RouterIdle

\* CanonicalDocument.to_record
SerialiseNext ==
  /\ callee = "CanonicalDocument.to_record" /\ returned = <<>>
  /\ returned' = <<to_dict(args)>>
  /\ UNCHANGED <<callee, args, wfVars, ingVars, dlqVars, rtVars>>

SpecSerialise == InitSerialise /\ [][SerialiseNext]_vars

(***************************************************************************)
(* Enrichment dispatcher                                                   *)
(***************************************************************************)
\* _chunked: consecutive slices of `size` items, the last one shorter
RECURSIVE chunked(_, _)
chunked(items, size) ==
  IF items = <<>> THEN <<>>
  ELSE LET step == IF size <= 0 THEN 1 ELSE size
           n == IF Len(items) < step THEN Len(items) ELSE step
       IN <<SubSeq(items, 1, n)>> \o chunked(SubSeq(items, n + 1, Len(items)), step)

\* variant of _safe_max_batch that lets one more request into a batch
safe_max_batch_OneMore(max_batch_size) == max_batch_size + 1

\* _safe_max_batch: the provider's max_batch_size, at least 1
safe_max_batch(max_batch_size) == IF max_batch_size < 1 THEN 1 ELSE max_batch_size

\* _invoke_provider: the document ids of the responses to one batch; the
\* provider's behaviour on a batch is fixed by the batch's first request;
\* documents are numbered from 1 and 0 is the id of no document
invoke_provider(behaviour, requests) ==
  CASE behaviour[requests[1]] = "ok" -> requests
    [] behaviour[requests[1]] = "unknown_document" -> <<0>> \o requests
    [] behaviour[requests[1]] \in {"raises", "times_out"} -> <<>>

\* EnrichmentDispatcher.dispatch with the providers `keywords` (whose
\* max_batch_size and behaviour are arguments) and `entities`; returns
\* the provider calls made and the result mapping
dispatch(documents, provider_names, max_batch_size, behaviour) ==
  LET size(p) == IF p = "keywords" THEN max_batch_size ELSE 2
      configured == {"keywords", "entities"}
      RECURSIVE calls_of(_)
      calls_of(names) ==
        IF names = <<>> THEN <<>>
        ELSE LET p == Head(names)
                 batches == IF p \in configured
                            THEN chunked(documents, safe_max_batch(size(p)))
                            ELSE <<>>
             IN [i \in 1..Len(batches) |-> [provider |-> p, batch |-> batches[i]]]
                \o calls_of(Tail(names))
      calls == IF documents = <<>> THEN <<>> ELSE calls_of(provider_names)
      RECURSIVE extend(_, _)
      extend(results, k) ==
        IF k > Len(calls) THEN results
        ELSE LET responses == invoke_provider(behaviour, calls[k].batch)
                 answered == {responses[i] : i \in 1..Len(responses)} \cap DOMAIN results
             IN extend([d \in DOMAIN results |->
                          IF d \in answered THEN Append(results[d], calls[k].provider)
                          ELSE results[d]], k + 1)
  IN [calls |-> calls,
      results |-> extend([d \in {documents[i] : i \in 1..Len(documents)} |-> <<>>], 1)]

\* one dispatch of up to MaxDocs documents to up to two requested names
InitDispatch ==
  LET Ids == [i \in 1..MaxDocs |-> i]
      Names == {"keywords", "entities", "not_configured"}
  IN /\ callee = "EnrichmentDispatcher.dispatch"
     /\ \E n \in 0..MaxDocs, size \in 0..MaxDocs,
           names \in {<<>>} \cup {<<a>> : a \in Names} \cup (Names \X Names),
           behaviour \in [1..MaxDocs -> {"ok", "unknown_document", "raises", "times_out"}] :
          args = [documents |-> SubSeq(Ids, 1, n), provider_names |-> names,
                  max_batch_size |-> size, behaviour |-> behaviour]
     /\ returned = <<>>
     /\ WfIdle /\ IngIdle /\ DlqIdle /\ RouterIdle

\* EnrichmentDispatcher.dispatch
DispatchNext ==
  /\ callee = "EnrichmentDispatcher.dispatch" /\ returned = <<>>
  /\ returned' = <<dispatch(args.documents, args.provider_names,
                            args.max_batch_size, args.behaviour)>>
  /\ UNCHANGED <<callee, args, wfVars, ingVars, dlqVars, rtVars>>

SpecDispatch == InitDispatch /\ [][DispatchNext]_vars

InitWorkflow == WfInit /\ IngIdle /\ DlqIdle /\ RouterIdle /\ CallIdle

SpecWorkflow == InitWorkflow /\ [][WfNext]_vars

InitIngest == IngInit /\ WfIdle /\ DlqIdle /\ RouterIdle /\ CallIdle

InitDlq == DlqInit /\ WfIdle /\ IngIdle /\ RouterIdle /\ CallIdle

SpecRouterLayouts == InitRouterLayouts /\ [][RouterNext]_vars

SpecRouterStrategy == InitRouterStrategy /\ [][RouterNext]_vars

SpecRouterRequest == InitRouterRequest /\ [][RouterNext]_vars

SpecRouterFallback == InitRouterFallback /\ [][RouterNext]_vars

SpecRouterContent == InitRouterContent /\ [][RouterNext]_vars

SpecDlq == InitDlq /\ [][DlqNext]_vars

SpecIngest == InitIngest /\ [][IngNext]_vars

\* The loop is one thread that runs whenever it can: every statement of
\* process_messages that is enabled is eventually executed, SQS eventually
\* expires a visibility timeout, and a loop that polls again and again while
\* messages are visible eventually gets a response that carries some.
IngFairness ==
  /\ SF_vars(Receive /\ UNCHANGED <<wfVars, dlqVars, rtVars, callVars>>)
  /\ WF_vars(Wake /\ UNCHANGED <<wfVars, dlqVars, rtVars, callVars>>)
  /\ WF_vars(RouteOne /\ UNCHANGED <<wfVars, dlqVars, rtVars, callVars>>)
  /\ WF_vars(PersistBase /\ UNCHANGED <<wfVars, dlqVars, rtVars, callVars>>)
  /\ WF_vars(PersistRouting /\ UNCHANGED <<wfVars, dlqVars, rtVars, callVars>>)
  /\ WF_vars(Dispatch /\ UNCHANGED <<wfVars, dlqVars, rtVars, callVars>>)
  /\ WF_vars(Delete /\ UNCHANGED <<wfVars, dlqVars, rtVars, callVars>>)
  /\ WF_vars(WriteSummary /\ UNCHANGED <<wfVars, dlqVars, rtVars, callVars>>)
  /\ WF_vars((\E m \in Msgs : VisibilityTimeout(m)) /\ UNCHANGED <<wfVars, dlqVars, rtVars, callVars>>)

SpecIngestFair == InitIngest /\ [][IngNext]_vars /\ IngFairness

(***************************************************************************)
(* Workflow: properties                                                    *)
(***************************************************************************)
Returned(p) == pc[p] = "idle" /\ result[p] \notin {"none", "pending"}

CallKey(p) == Key(arg[p].id, arg[p].bytes)

\* C1: a process call with force=false for a (document_id, bytes) pair that an
\* earlier call has processed successfully returns skipped=true (it does not
\* raise and does not return a document).
C1_SecondCallIsSkipped ==
  \A p \in Procs :
    (Returned(p) /\ ~arg[p].force /\ recAtCheck[p]) => result[p] = "skipped"

\* C2: as long as only force=false calls have saved a key, store.save has run
\* at most once for it and the store holds at most one record for it,
\* whatever the interleaving of the calls.
C2_PersistedExactlyOnce ==
  \A k \in Keys :
    saves[k].forced = 0 => (saves[k].plain <= 1 /\ store[k] <= 1)

\* C3: a process call with force=true is never skipped, also when the store
\* holds a record for its key: it calls the vendor, and when it returns it
\* returns the document (skipped=false) after the adapter ran and the
\* document was saved.
C3_ForceNeverSkipped ==
  \A p \in Procs :
    (arg[p].force /\ result[p] # "none") =>
      /\ result[p] \notin {"skipped", "TypeError"}
      /\ Returned(p) => "vendor" \in did[p]
      /\ result[p] = "document" =>
            /\ {"vendor", "adapter", "save"} \subseteq did[p]
            /\ store[CallKey(p)] > 0
            /\ saves[CallKey(p)].forced > 0

C3_Witness ==
  \E p \in Procs :
    arg[p].force /\ recAtCheck[p] /\ Returned(p) /\ result[p] = "document"

\* C4: the step of a process call that finds force=false and a record for its
\* key ends the call and changes nothing else: no vendor call, no adapter,
\* summariser or enrichment run, no write to the store.
C4_SkipChangesNothing ==
  [][\A p \in Procs :
       (pc[p] = "check" /\ pc'[p] # "check" /\ ~arg[p].force
          /\ store[CallKey(p)] > 0)
       => /\ pc'[p] = "idle"
          /\ did'[p] = {}
          /\ store' = store
          /\ saves' = saves
          /\ ncalls' = ncalls]_vars

C4_Witness ==
  \E p \in Procs :
    Returned(p) /\ ~arg[p].force /\ recAtCheck[p] /\ did[p] = {}
      /\ result[p] \in {"skipped", "TypeError"}

\* C5: one analyze() makes at most max_retries+1 vendor calls; it returns on
\* the first call that succeeds (every call before it failed) and raises
\* exactly when max_retries+1 calls have failed.
C5_AnalyzeCallBound ==
  \A p \in Procs :
    /\ ncalls[p] <= maxRetries
    /\ lastAnalyze[p].calls <= maxRetries + 1
    /\ lastAnalyze[p].outcome = "returned" =>
          lastAnalyze[p].fails = lastAnalyze[p].calls - 1
    /\ lastAnalyze[p].outcome = "raised" =>
          /\ lastAnalyze[p].calls = maxRetries + 1
          /\ lastAnalyze[p].fails = maxRetries + 1

C5_Witness ==
  \E p \in Procs :
    /\ maxRetries >= 1
    /\ lastAnalyze[p].outcome = "raised"
    /\ lastAnalyze[p].calls = maxRetries + 1

\* C6: the step in which analyze() gives up (for the document or for one of
\* its email attachments) ends the call with the vendor error and leaves the
\* store as it was; the failed call has not saved anything.
C6_VendorFailureLeavesStore ==
  [][\A p \in Procs :
       (result'[p] = "vendor_error" /\ result[p] # "vendor_error")
       => /\ pc'[p] = "idle"
          /\ "save" \notin did'[p]
          /\ store' = store
          /\ saves' = saves
          /\ ~has_record(store, CallKey(p)) => ~has_record(store', CallKey(p))]_vars

C6_Witness ==
  \E p \in Procs :
    /\ Returned(p) /\ result[p] = "vendor_error"
    /\ "adapter" \in did[p]          \* an attachment failed, not the document
    /\ store[CallKey(p)] = 0

(***************************************************************************)
(* Ingestion loop: properties                                              *)
(***************************************************************************)
Happened(kind, m) == <<kind, m>> \in Range(events)

\* position of the first event <<kind, m>> of the current cycle, 0 when none
Pos(kind, m) ==
  LET hits == {i \in 1..Len(events) : events[i] = <<kind, m>>}
  IN IF hits = {} THEN 0 ELSE CHOOSE i \in hits : \A j \in hits : i <= j

\* C7: a message whose body carries no object key is never acknowledged: its
\* receipt handle is in no delete_message_batch call and it stays on the queue.
C7_NoKeyMessageNotDeleted ==
  \A m \in Msgs :
    msgKind[m] = "nokey" => (qstate[m] # "deleted" /\ ~Happened("deleted", m))

\* C8: when a message of the batch fails (invalid JSON body, or router.route
\* raises for it), the cycle still routes, persists and deletes the other
\* messages of the batch.
C8_FailureDoesNotBlockSiblings ==
  (ipc = "raised" /\ cause \in {"json", "route"}) =>
    \A m \in Range(batch) :
      msgKind[m] = "good" =>
        Happened("routed", m) /\ Happened("persisted", m) /\ Happened("deleted", m)

\* C9: for every message a cycle routes and deletes, the cycle polled it, then
\* routed it, then persisted its record (base table, then routing table when
\* one is configured), then dispatched its payload, then deleted it.
C9_StepOrder ==
  \A m \in Msgs :
    /\ (Happened("routed", m) /\ Happened("deleted", m)) =>
         /\ 0 < Pos("polled", m)
         /\ Pos("polled", m) < Pos("routed", m)
         /\ Pos("routed", m) < Pos("persisted", m)
         /\ Pos("persisted", m) < Pos("dispatched", m)
         /\ Pos("dispatched", m) < Pos("deleted", m)
         /\ routingTableSet =>
               /\ Pos("persisted", m) < Pos("persisted_routing", m)
               /\ Pos("persisted_routing", m) < Pos("dispatched", m)
    /\ Happened("persisted", m) => Happened("routed", m)
    /\ Happened("dispatched", m) => Happened("persisted", m)

C9_Witness ==
  \E m \in Msgs :
    /\ Happened("routed", m) /\ Happened("deleted", m)
    /\ qstate[m] = "deleted"
    /\ routingTableSet /\ dispatchJobId
    /\ Len(batch) = 2

\* C10: when persist_metadata (base or routing table) or the worker dispatch
\* raises, process_messages ends with that error and no message of the batch
\* has been deleted.
C10_PersistFailureFailsCycle ==
  cause \in {"persist", "persist_routing", "dispatch"} =>
    /\ ipc = "raised"
    /\ \A m \in Range(batch) : qstate[m] # "deleted" /\ ~Happened("deleted", m)

C10_Witness ==
  /\ cause = "dispatch" /\ ipc = "raised"
  /\ Len(batch) = 2
  /\ \A m \in Range(batch) : metadataTable[m] > 0 /\ qstate[m] \in {"inflight", "visible"}

\* the loop has been left through `break` (the run summary follows)
LeftLoop == ipc \in {"summary", "done"}

\* C11 (as stated): with max_batches set, process_messages eventually leaves
\* its polling loop (runs that end with an exception, or that exhaust the
\* model's budget of batches, are not held against the claim).
C11_EventuallyLeavesLoop ==
  maxBatches >= 1 => <>(LeftLoop \/ ipc = "raised" \/ cycles >= MaxCycles)

\* C11 (amended): with max_batches = N >= 1 the loop is left exactly when N
\* non-empty batches of the run have been processed, right after the N-th was
\* deleted, and no batch is received after that; empty receives do not count,
\* so until then the loop keeps polling.
C11_StopsRightAfterNthBatch ==
  /\ [](maxBatches >= 1 =>
         /\ batchesProcessed <= maxBatches
         /\ LeftLoop <=> batchesProcessed = maxBatches)
  /\ [][LeftLoop =>
         /\ LeftLoop'
         /\ batch' = batch /\ cycles' = cycles
         /\ batchesProcessed' = batchesProcessed
         /\ \A m \in Msgs : qstate'[m] = "inflight" => qstate[m] = "inflight"]_vars
  /\ [][(~LeftLoop /\ LeftLoop') =>
         /\ batchesProcessed' = batchesProcessed + 1
         /\ \A m \in Range(batch) : qstate'[m] = "deleted"]_vars

C11_Witness ==
  /\ maxBatches = 2 /\ batchesProcessed = 2 /\ ipc = "done"

(***************************************************************************)
(* DLQ replay and peek: properties                                         *)
(***************************************************************************)

\* C12: in replay_dead_letter_queue a DLQ message is deleted only after its
\* send_message succeeded; an iteration whose send raised ClientError
\* deletes nothing, counts nothing, and the for loop goes on to the next
\* message of the batch.
C12_DeleteOnlyAfterSend ==
  /\ [](\A m \in DlqMsgs :
          /\ deleteCalls[m] <= sentOk[m]
          /\ dq[m] = "deleted" => sentOk[m] >= 1)
  /\ [][\A m \in DlqMsgs :
          sendFailed'[m] > sendFailed[m] =>
            /\ dq' = dq /\ dq[m] # "deleted"
            /\ deleteCalls' = deleteCalls
            /\ replayed' = replayed
            /\ dpc' = "loop" /\ didx' = didx + 1]_vars

\* a failed send of message 1 was followed, in the same batch, by the
\* replay of message 2
C12_Witness ==
  /\ dmode = "replay" /\ dcycles = 1
  /\ sendFailed[1] = 1 /\ sentOk[1] = 0 /\ dq[1] # "deleted"
  /\ sentOk[2] = 1 /\ deleteCalls[2] = 1 /\ dq[2] = "deleted"

\* C13: during one replay run no DLQ message is sent to the target queue
\* twice, and the messages counted in `replayed` are exactly those sent once
\* and deleted once.
C13_ReplayedExactlyOnce ==
  dmode = "replay" =>
    /\ \A m \in DlqMsgs : sentOk[m] <= 1 /\ deleteCalls[m] <= 1
    /\ replayed = Cardinality({m \in DlqMsgs : sentOk[m] = 1 /\ deleteCalls[m] = 1})
    /\ replayed = SumOver(deleteCalls)

\* a message whose first send failed came back after its visibility timeout
\* and was replayed by a later receive of the same run
C13_Witness ==
  /\ dmode = "replay" /\ dcycles >= 2
  /\ \E m \in DlqMsgs :
       sendFailed[m] >= 1 /\ sentOk[m] = 1 /\ deleteCalls[m] = 1
  /\ replayed >= 1

\* C14: with limit = N the replay sends at most N messages and deletes at
\* most N, with limit = 0 none at all, and the value it returns is the number
\* of messages sent and deleted.
C14_LimitCapsReplay ==
  dmode = "replay" =>
    /\ limit # NoLimit =>
         /\ SumOver(sentOk) <= limit
         /\ SumOver(deleteCalls) <= limit
    /\ dpc = "done" =>
         /\ replayed = SumOver(sentOk)
         /\ replayed = SumOver(deleteCalls)

\* the cap cut a batch short: the run returned 1 although another message
\* had been received and is left on the DLQ
C14_Witness ==
  /\ dmode = "replay" /\ limit = 1 /\ dpc = "done" /\ replayed = 1
  /\ Len(messages) >= 2
  /\ \E m \in DlqMsgs : dq[m] # "deleted" /\ sentOk[m] = 0

\* C15: peek_dlq_messages sends nothing and deletes nothing, returns at most
\* `limit` messages, and when it returns every message it received is
\* visible on the DLQ again.
C15_PeekNonDestructive ==
  dmode = "peek" =>
    /\ SumOver(sentOk) = 0 /\ SumOver(deleteCalls) = 0
    /\ \A m \in DlqMsgs : dq[m] # "deleted"
    /\ Len(messages) <= limit
    /\ dpc = "done" => \A m \in Range(messages) : dq[m] = "visible"

\* the peek returned a full list of `limit` messages taken in two receives
C15_Witness ==
  /\ dmode = "peek" /\ dpc = "done" /\ dcycles >= 2
  /\ limit >= 2 /\ Len(messages) = limit

(***************************************************************************)
(* Document router: properties                                             *)
(***************************************************************************)
\* the tier a routed document falls into, read off the inputs of route()
ExpectedTier ==
  IF body.parser_override \notin {None, Some("")} THEN "request"
  ELSE IF \E i \in 1..Len(overrides) : Search(overrides[i].pattern, object_key)
  THEN "pattern"
  ELSE IF config.mode = "static" /\ config.static_strategy # None THEN "static"
  ELSE IF /\ category \in CappedCategories
          /\ ThresholdFor(config, category) \notin {None, Some(0)}
          /\ profile.page_count > ThresholdFor(config, category)[1]
  THEN "redirect"
  ELSE "default"

CategoryRules ==
  << [when |-> profile.page_count = 0, then |-> "unknown"],
     [when |-> profile.scanned_page_ratio.num >=
                 config.scanned_page_ratio_threshold * profile.scanned_page_ratio.den,
      then |-> "scanned"],
     [when |-> profile.table_page_ratio.num >=
                 config.table_page_ratio_threshold * profile.table_page_ratio.den,
      then |-> "table_heavy"],
     [when |-> profile.form_page_ratio.num >=
                 config.form_page_ratio_threshold * profile.form_page_ratio.den,
      then |-> "form_heavy"],
     [when |-> profile.page_count >= config.long_form_threshold,
      then |-> "long_form"],
     [when |-> /\ profile.page_count <= config.short_form_threshold
               /\ profile.average_text_density.num >=
                    config.short_form_min_text_density * profile.average_text_density.den,
      then |-> "short_form"],
     [when |-> TRUE, then |-> "unknown"] >>

\* C17: the category of a profile is the outcome of the first rule that
\* matches in the fixed list: no pages, scanned, table_heavy, form_heavy,
\* long_form, short_form, unknown.
C17_CategoryIsFirstMatch ==
  rpc \in {"resolve", "routed"} =>
    \E i \in 1..Len(CategoryRules) :
      /\ CategoryRules[i].when
      /\ \A j \in 1..(i - 1) : ~CategoryRules[j].when
      /\ category = CategoryRules[i].then

\* a profile that meets the scanned and the table threshold was categorised
C17_Witness ==
  /\ rpc = "routed"
  /\ profile.page_count > 0
  /\ CategoryRules[2].when /\ CategoryRules[3].when
  /\ category = "scanned"

NoOverrideApplies ==
  /\ body.parser_override \in {None, Some("")}
  /\ \A i \in 1..Len(overrides) : ~Search(overrides[i].pattern, object_key)
  /\ ~(config.mode = "static" /\ config.static_strategy # None)

Redirected ==
  /\ strategy.name = config.fallback_strategy.name
  /\ strategy.model = config.fallback_strategy.model
  /\ strategy.max_pages = ThresholdFor(config, category)
  /\ strategy.reason = "page_threshold_exceeded"

CategoryDefault ==
  /\ strategy.name = strategy_for_category(config, category).name
  /\ strategy.reason = "category_default"

\* C18 as stated: whenever the page count exceeds the cap configured for a
\* capped category the document is redirected to the fallback strategy;
\* scanned and unknown documents are never redirected; a document within
\* its cap gets the category default.
C18_RedirectWhenCapExceeded ==
  (rpc = "routed" /\ NoOverrideApplies) =>
    LET cap == ThresholdFor(config, category) IN
    /\ (category \in CappedCategories /\ cap # None /\ profile.page_count > cap[1])
         => Redirected
    /\ category \in {"scanned", "unknown"} => CategoryDefault
    /\ (category \in CappedCategories /\ cap # None /\ profile.page_count <= cap[1])
         => CategoryDefault

\* C18 amended: the redirect is taken when the cap is set to a non-zero
\* value and the page count exceeds it; a cap of 0 counts as no cap; in
\* every other case the document gets the category default.
C18_RedirectWhenNonZeroCapExceeded ==
  (rpc = "routed" /\ NoOverrideApplies) =>
    LET cap == ThresholdFor(config, category) IN
    IF /\ category \in CappedCategories
       /\ cap \notin {None, Some(0)}
       /\ profile.page_count > cap[1]
    THEN Redirected
    ELSE CategoryDefault

\* a two-page document of a category capped at one page was redirected
C18_Witness ==
  /\ rpc = "routed" /\ NoOverrideApplies
  /\ category \in CappedCategories
  /\ ThresholdFor(config, category) = Some(1)
  /\ profile.page_count = 2
  /\ strategy.reason = "page_threshold_exceeded"

\* C19: the pattern overrides are tried in the order secret store, override
\* table, environment, and the first one whose pattern matches the object
\* key decides the strategy.
C19_FirstMatchInSourceOrder ==
  (rpc = "routed" /\ body.parser_override \in {None, Some("")}) =>
    LET hit(src) == {i \in 1..Len(src) : Search(src[i].pattern, object_key)}
        first(src) == src[CHOOSE i \in hit(src) : \A j \in hit(src) : i <= j]
        decides(o) == /\ strategy.name = o.strategy.name
                      /\ strategy.reason = "config_pattern_override"
                      /\ applied = <<PatternTag(o.pattern)>>
    IN /\ Len(overrides) = Len(secretOverrides) + Len(tableOverrides) + Len(envOverrides)
       /\ IF hit(secretOverrides) # {} THEN decides(first(secretOverrides))
          ELSE IF hit(tableOverrides) # {} THEN decides(first(tableOverrides))
          ELSE IF hit(envOverrides) # {} THEN decides(first(envOverrides))
          ELSE strategy.reason # "config_pattern_override"

\* the three sources each held a matching override and the secret one won
C19_Witness ==
  /\ rpc = "routed" /\ body.parser_override = None
  /\ \A src \in {secretOverrides, tableOverrides, envOverrides} :
       \E i \in 1..Len(src) : Search(src[i].pattern, object_key)
  /\ strategy.name = "secret_parser"

\* C20: every profile an analyser returns has its ratio fields, its average
\* densities and the densities of each of its pages within [0, 1].
C20_ProfileWithinUnitInterval ==
  rpc \in {"categorise", "resolve", "routed"} =>
    /\ InUnit(profile.table_page_ratio)
    /\ InUnit(profile.scanned_page_ratio)
    /\ InUnit(profile.checkbox_page_ratio)
    /\ InUnit(profile.radio_button_page_ratio)
    /\ InUnit(profile.form_page_ratio)
    /\ InUnit(profile.average_text_density)
    /\ InUnit(profile.average_image_density)
    /\ \A i \in 1..Len(profile.pages) :
         /\ profile.pages[i].text_density \in 0..100
         /\ profile.pages[i].image_density \in 0..100
         /\ profile.pages[i].table_density \in 0..100

(***************************************************************************)
(* Request override placement                                              *)
(***************************************************************************)
\* C23: a non-empty request override under body[flag], body.routing[flag]
\* or body.overrides[flag] is picked up whatever the other two places
\* contain, and the strategy is then the requested one with reason
\* request_override.
C23_RequestOverrideFromAnyPlace ==
  rpc = "routed" =>
    \A place \in {body.parser_override,
                  IF body.routing = None THEN None ELSE body.routing[1],
                  IF body.overrides = None THEN None ELSE body.overrides[1]} :
      (place # None /\ place[1] # "") =>
        /\ strategy.reason = "request_override"
        /\ applied = <<"request">>
        /\ strategy.name \in {"request_parser", "block_parser"}

(***************************************************************************)
(* Fallback strategy and the `unknown` entry                               *)
(***************************************************************************)
\* C24: when the configuration was built with no fallback_strategy, a
\* page-cap redirect selects the name and model of the `unknown` entry of
\* default_strategy_map; the map always has an `unknown` entry, and
\* strategy_for_category returns it for a category without an entry.
C24_UnknownEntryIsFallback ==
  LET unknown == config.default_strategy_map["unknown"] IN
  /\ unknown # None
  /\ \A c \in DOMAIN config.default_strategy_map :
       config.default_strategy_map[c] = None =>
         strategy_for_category(config, c) = unknown[1]
  /\ (/\ rpc = "routed"
      /\ ~config.fallback_given
      /\ strategy.reason = "page_threshold_exceeded")
       => /\ strategy.name = unknown[1].name
          /\ strategy.model = unknown[1].model

(***************************************************************************)
(* Model-backed layout analysis                                            *)
(***************************************************************************)
\* C27: when the layout-model client raises or returns no pages, the
\* profile of ModelBackedLayoutAnalyser is exactly the one the wrapped
\* fallback analyser computes for the same document; when the client
\* returns pages, the profile is built from those pages alone.
C27_ModelFailureFallsBack ==
  (analyser = "model" /\ rpc \in {"categorise", "resolve", "routed"}) =>
    IF response.raises \/ Len(response.pages) = 0
    THEN profile = analyse("heuristic", body, content, response)
    ELSE /\ Len(profile.pages) = Len(response.pages)
         /\ \A i \in 1..Len(response.pages) :
              profile.pages[i] = page_metrics_from_payload(i - 1, response.pages[i])

\* the client raised and the profile came from the layout in the body
C27_Witness ==
  /\ analyser = "model" /\ rpc = "categorise"
  /\ response.raises
  /\ body.pageCount # None
  /\ profile.page_count = MaxPages
  /\ Len(profile.pages) = MaxPages

(***************************************************************************)
(* Content resolution                                                      *)
(***************************************************************************)
\* C26: the content handed to the analyser is that of the first resolver,
\* in configured order, that yields content; resolvers that raise or return
\* nothing are skipped; when none yields content the content is nil, and
\* in every case the route goes on to its next step.
C26_FirstResolverWithContent ==
  LET yields(i) == /\ ~content_resolvers[i].raises
                   /\ content_resolvers[i].content # NoContent
      yielding == {i \in 1..Len(content_resolvers) : yields(i)}
  IN /\ rpc \in {"categorise", "resolve", "routed"} =>
          IF yielding = {} THEN content = NoContent
          ELSE \E i \in yielding :
                 /\ \A j \in yielding : i <= j
                 /\ content = content_resolvers[i].content
     /\ rpc \in {"analyse", "categorise", "resolve"} =>
          ENABLED (Analyse \/ Categorise \/ ResolveStrategy)

\* the first resolver raised and the content came from the last one
C26_Witness ==
  /\ rpc = "routed"
  /\ Len(content_resolvers) >= 2
  /\ content_resolvers[1].raises
  /\ content # NoContent
  /\ content = content_resolvers[Len(content_resolvers)].content

(***************************************************************************)
(* Depth of the attachment expansion                                       *)
(***************************************************************************)
\* C28: no attachment nested more than 3 levels below the top-level
\* document is analysed or attached (an attachment of the submitted email
\* is 1 level below it, an attachment of an attached email 2 levels, ...).
C28_NoAttachmentBelowThreeLevels ==
  \A p \in Procs :
    LET RECURSIVE NestingLevels(_, _)
        NestingLevels(part, level) ==
          <<level>> \o Concat([i \in 1..Len(part.children) |->
                                NestingLevels(part.children[i],
                                              IF StartsWithMessage(part.ctype)
                                              THEN level + 1 ELSE level)])
        levels == NestingLevels(MimeTree(arg[p].bytes), 1)
    IN /\ \A i \in 1..Len(atts[p]) : levels[atts[p][i]] <= 3
       /\ (pc[p] = "attach" /\ walkIdx[p] # 0) => levels[walkIdx[p]] <= 3

(***************************************************************************)
(* Redelivery of a batch                                                   *)
(***************************************************************************)
\* C29: processing a redelivered batch again leaves the metadata and
\* routing tables with the rows of processing it once: no message ever has
\* more than one row in either table.
C29_RedeliveryAddsNoRow ==
  \A m \in Msgs : metadataTable[m] <= 1 /\ routingTable[m] <= 1

(***************************************************************************)
(* Override provider                                                       *)
(***************************************************************************)
\* C25: load never raises, whatever the sources hold, and returns the
\* well-formed entries of the secret, the table and the environment in
\* that order: each malformed entry is dropped and the valid entries
\* around it are kept.
C25_LoadNeverRaises ==
  (callee = "ConfiguredOverrideProvider.load" /\ returned # <<>>) =>
    LET wellFormed(c) == /\ c.t = "dict"
                         /\ c.pattern.t = "str" /\ c.pattern.v \notin {"", "("}
                         /\ c.strategy.t # "null" /\ c.strategy.v # ""
        kept(items) ==
          LET sel == SelectSeq(items, wellFormed)
          IN [i \in 1..Len(sel) |->
                [pattern |-> sel[i].pattern.v,
                 strategy |-> StrategyConfig(sel[i].strategy.v, None, None)]]
        of(payload) == IF payload.j \in {"list", "wrapped", "other"}
                       THEN kept(payload.items) ELSE <<>>
    IN /\ ~returned[1].raised
       /\ returned[1].pattern_overrides =
            of(args.secret)
              \o (IF args.table.raises THEN <<>> ELSE kept(args.table.rows))
              \o of(args.env)

(***************************************************************************)
(* Ensemble adapter                                                        *)
(***************************************************************************)
\* C21 as stated: every merged collection, attachments included, is the
\* concatenation of the sub-adapters' outputs in the order of the parsers
\* list, and parsers_used lists one provider name per processed entry in
\* that order.
C21_MergedIsConcatenation ==
  (callee = "MultiParserAdapter.transform" /\ returned # <<>> /\ ~returned[1].raised) =>
    LET processed(e) == e.is_dict
        done == SelectSeq(args.parsers, processed)
    IN /\ \A c \in Collections :
            returned[1].combined[c] = Concat([i \in 1..Len(done) |-> done[i].canonical[c]])
       /\ Len(returned[1].parsers_used) = Len(done)
       /\ \A i \in 1..Len(done) :
            returned[1].parsers_used[i] \in {done[i].canonical.provider, done[i].name}

\* C21 amended: the same for every collection but attachments; the merged
\* attachments are that concatenation followed by the usable entries of
\* the ensemble payload's own `attachments` list, in their order.
C21_MergedIsConcatenationThenOwnAttachments ==
  (callee = "MultiParserAdapter.transform" /\ returned # <<>> /\ ~returned[1].raised) =>
    LET processed(e) == e.is_dict
        done == SelectSeq(args.parsers, processed)
        complete(a) == a.is_dict /\ a.complete
        own == SelectSeq(args.attachments, complete)
        concat(c) == Concat([i \in 1..Len(done) |-> done[i].canonical[c]])
        merged == returned[1].combined
    IN /\ \A c \in Collections \ {"attachments"} : merged[c] = concat(c)
       /\ merged["attachments"] =
            concat("attachments") \o [i \in 1..Len(own) |-> own[i].attachment_id]
       /\ Len(returned[1].parsers_used) = Len(done)
       /\ \A i \in 1..Len(done) :
            returned[1].parsers_used[i] =
              IF done[i].canonical.provider # "" THEN done[i].canonical.provider
              ELSE done[i].name

\* two different sub-adapters and a skipped entry were merged, and the
\* payload brought an attachment of its own
C21_Witness ==
  /\ callee = "MultiParserAdapter.transform" /\ returned # <<>>
  /\ ~returned[1].raised
  /\ returned[1].parsers_used = <<"pymupdf", "databricks_llm_image">>
  /\ Len(args.parsers) = 3
  /\ returned[1].combined["text_spans"] = <<"t1", "t2", "t3">>
  /\ returned[1].combined["attachments"] = <<"a1", "x1">>

(***************************************************************************)
(* Serialisation without nulls                                             *)
(***************************************************************************)
\* C22 as stated: the output of to_dict / to_record carries no null value
\* for a field at any level.
C22_NoNullInRecord ==
  (callee = "CanonicalDocument.to_record" /\ returned # <<>>) =>
    LET RECURSIVE NoNull(_)
        NoNull(dict) ==
          \A key \in DOMAIN dict.fields :
            /\ dict.fields[key].kind # "null"
            /\ \A i \in 1..Len(dict.fields[key].items) : NoNull(dict.fields[key].items[i])
    IN NoNull(returned[1])

\* C22 amended: the only null the output can carry is the `value` of a
\* structured field, which is written whether or not it is null; every
\* other field whose value is null is left out, at every level.
C22_NoNullButFieldValue ==
  (callee = "CanonicalDocument.to_record" /\ returned # <<>>) =>
    LET RECURSIVE NoNull(_)
        NoNull(dict) ==
          \A key \in DOMAIN dict.fields :
            /\ dict.fields[key].kind = "null" =>
                 (dict.cls = "StructuredField" /\ key = "value")
            /\ \A i \in 1..Len(dict.fields[key].items) : NoNull(dict.fields[key].items[i])
        RECURSIVE ValueKept(_)
        ValueKept(dict) ==
          /\ dict.cls = "StructuredField" => "value" \in DOMAIN dict.fields
          /\ \A key \in DOMAIN dict.fields :
               \A i \in 1..Len(dict.fields[key].items) : ValueKept(dict.fields[key].items[i])
    IN NoNull(returned[1]) /\ ValueKept(returned[1])

\* a document with null optional fields at several levels, an attachment
\* with a nested document and a structured field without value
C22_Witness ==
  /\ callee = "CanonicalDocument.to_record" /\ returned # <<>>
  /\ args.fields["document_type"].kind = "null"
  /\ "document_type" \notin DOMAIN returned[1].fields
  /\ "attachments" \in DOMAIN returned[1].fields
  /\ "document" \in DOMAIN returned[1].fields["attachments"].items[1].fields
  /\ "span_id" \notin DOMAIN returned[1].fields["text_spans"].items[1].fields
  /\ returned[1].fields["fields"].items[1].fields["value"].kind = "null"

(***************************************************************************)
(* Enrichment batches                                                      *)
(***************************************************************************)
\* C30 as stated: each requested provider is called on consecutive batches
\* of at most max_batch_size requests in document order, every document in
\* exactly one batch per provider; the result has exactly one key per
\* document, a response for an unknown document is ignored, and a batch
\* whose call raises or times out contributes nothing while the later
\* batches are still sent.
C30_BatchesOfMaxBatchSize ==
  (callee = "EnrichmentDispatcher.dispatch" /\ returned # <<>>) =>
    LET calls == returned[1].calls
        results == returned[1].results
        docs == args.documents
        most(p) == IF p = "keywords" THEN args.max_batch_size ELSE 2
        requested == {args.provider_names[i] : i \in 1..Len(args.provider_names)}
                       \cap {"keywords", "entities"}
        RECURSIVE sent(_, _)
        sent(p, k) == IF k > Len(calls) THEN <<>>
                      ELSE (IF calls[k].provider = p THEN calls[k].batch ELSE <<>>)
                           \o sent(p, k + 1)
        answers(k) == args.behaviour[calls[k].batch[1]] \in {"ok", "unknown_document"}
    IN /\ \A k \in 1..Len(calls) :
            /\ calls[k].provider \in requested
            /\ Len(calls[k].batch) >= 1
            /\ Len(calls[k].batch) <= most(calls[k].provider)
       /\ \A p \in requested : sent(p, 1) = docs
       /\ DOMAIN results = {docs[i] : i \in 1..Len(docs)}
       /\ \A d \in DOMAIN results :
            /\ Len(results[d]) =
                 Cardinality({k \in 1..Len(calls) :
                                answers(k) /\ \E i \in 1..Len(calls[k].batch) : calls[k].batch[i] = d})

\* C30 amended: a batch holds at most max(1, max_batch_size) requests, a
\* requested name that is not configured is skipped, and every document
\* is in exactly one batch per requested occurrence of a provider.
C30_BatchesOfSafeMaxBatchSize ==
  (callee = "EnrichmentDispatcher.dispatch" /\ returned # <<>>) =>
    LET calls == returned[1].calls
        results == returned[1].results
        docs == args.documents
        most(p) == LET m == IF p = "keywords" THEN args.max_batch_size ELSE 2
                    IN IF m < 1 THEN 1 ELSE m
        requested == {args.provider_names[i] : i \in 1..Len(args.provider_names)}
                       \cap {"keywords", "entities"}
        occurrences(p) == Cardinality({i \in 1..Len(args.provider_names) :
                                         args.provider_names[i] = p})
        RECURSIVE sent(_, _)
        sent(p, k) == IF k > Len(calls) THEN <<>>
                      ELSE (IF calls[k].provider = p THEN calls[k].batch ELSE <<>>)
                           \o sent(p, k + 1)
        answers(k) == args.behaviour[calls[k].batch[1]] \in {"ok", "unknown_document"}
    IN /\ \A k \in 1..Len(calls) :
            /\ calls[k].provider \in requested
            /\ Len(calls[k].batch) >= 1
            /\ Len(calls[k].batch) <= most(calls[k].provider)
       /\ \A p \in requested :
            sent(p, 1) = IF occurrences(p) = 1 THEN docs ELSE docs \o docs
       /\ DOMAIN results = {docs[i] : i \in 1..Len(docs)}
       /\ \A d \in DOMAIN results :
            /\ Len(results[d]) =
                 Cardinality({k \in 1..Len(calls) :
                                answers(k) /\ \E i \in 1..Len(calls[k].batch) : calls[k].batch[i] = d})
            /\ \A j \in 1..Len(results[d]) : results[d][j] \in requested

\* three documents for a provider with batches of two: the first batch
\* raises, the second is still sent and answers for an unknown document too
C30_Witness ==
  /\ callee = "EnrichmentDispatcher.dispatch" /\ returned # <<>>
  /\ args.documents = <<1, 2, 3>> /\ args.max_batch_size = 2
  /\ args.provider_names = <<"keywords">>
  /\ args.behaviour[1] = "raises" /\ args.behaviour[3] = "unknown_document"
  /\ Len(returned[1].calls) = 2
  /\ returned[1].calls[1].batch = <<1, 2>> /\ returned[1].calls[2].batch = <<3>>
  /\ returned[1].results[1] = <<>> /\ returned[1].results[3] = <<"keywords">>

=============================================================================
